---- MODULE Spec2Model ----
(***************************************************************************)
(* A model of the nuspec crate: the document codec of spec.rs and the      *)
(* metadata resolution of generate.rs.                                     *)
(*                                                                         *)
(* A Rust String is a sequence of one-character strings, so that           *)
(* split, join, trim and ends_with work on characters as the code does.    *)
(* Option<T> is a sequence of length 0 (None) or 1 (Some(v)).              *)
(***************************************************************************)
EXTENDS Integers, Sequences, FiniteSets, TLC

VARIABLES
    cpc, cval, cdoc, cres,     \* codec: phase, the value, its document, the value read back
    files, declared, added     \* file list: the list, the entries it began with, the
                               \* src of every entry offered since, in order

VARIABLES
    rpc,                       \* get_relative_path: where the call is
    from_dir, to_file,         \* its arguments, as canonicalize would return them
    canon,                     \* whether canonicalize succeeds on each argument
    walk,                      \* the two component iterators and their current items
    relative_path              \* the string returned

VARIABLES
    gpc,                       \* generate / generate_to: where the call is
    inp,                       \* the environment, working directory and platform
    arg_out_dir,               \* the argument of generate_to
    disk,                      \* the filesystem, with the content of written files
    loaded,                    \* what load_package_config returned
    file_name, serialized      \* the locals of generate_to

VARIABLES
    wpc,                       \* two runs of generate_to on one path: where each is
    output,                    \* what each has serialized
    cursor,                    \* the position of each one's open file
    shared,                    \* the bytes of the file they both write
    log                        \* who did which step, in order

codecVars == <<cpc, cval, cdoc, cres>>

genVars == <<gpc, inp, arg_out_dir, disk, loaded, file_name, serialized>>

listVars == <<files, declared, added>>

pathVars == <<rpc, from_dir, to_file, canon, walk, relative_path>>

raceVars == <<wpc, output, cursor, shared, log>>

vars == <<codecVars, listVars, pathVars, genVars, raceVars>>

---------------------------------------------------------------------------
(* Option<T> *)

None == <<>>

Some(v) == <<v>>

IsNone(o) == Len(o) = 0

IsSome(o) == Len(o) = 1

Unwrap(o) == o[1]

---------------------------------------------------------------------------
(* str: join, split, trim, ends_with *)

Whitespace == {" "}

RECURSIVE Join(_, _)
\* [String]::join(sep)
Join(list, sep) ==
    IF Len(list) = 0 THEN <<>>
    ELSE IF Len(list) = 1 THEN list[1]
    ELSE list[1] \o sep \o Join(Tail(list), sep)

RECURSIVE SplitFrom(_, _, _)
\* the pieces of s after its prefix `cur`, which is the piece being read
SplitFrom(s, sep, cur) ==
    IF Len(s) = 0 THEN <<cur>>
    ELSE IF Head(s) = sep THEN <<cur>> \o SplitFrom(Tail(s), sep, <<>>)
    ELSE SplitFrom(Tail(s), sep, Append(cur, Head(s)))

\* str::split(char): "" yields [""], "a," yields ["a", ""]
Split(s, sep) == SplitFrom(s, sep, <<>>)

RECURSIVE TrimStart(_)
TrimStart(s) ==
    IF Len(s) > 0 /\ Head(s) \in Whitespace THEN TrimStart(Tail(s)) ELSE s

RECURSIVE TrimEnd(_)
TrimEnd(s) ==
    IF Len(s) > 0 /\ s[Len(s)] \in Whitespace
    THEN TrimEnd(SubSeq(s, 1, Len(s) - 1)) ELSE s

\* str::trim
Trim(s) == TrimEnd(TrimStart(s))

\* str::ends_with(&str)
EndsWith(s, suffix) ==
    /\ Len(suffix) <= Len(s)
    /\ SubSeq(s, Len(s) - Len(suffix) + 1, Len(s)) = suffix

\* Iterator::map over a Vec
MapSeq(Op(_), list) == [i \in 1..Len(list) |-> Op(list[i])]

---------------------------------------------------------------------------
(* std::path on Unix: a path is a string, "/" separates its components *)

Sep == "/"

Dot == <<".">>

DotDot == <<".", ".">>

RootDir == <<"/">>

\* Path::is_absolute; Path::is_relative is its negation
IsAbsolute(s) == Len(s) > 0 /\ Head(s) = Sep

\* Path::components: the root, then the non-empty pieces; a "." piece is dropped
\* unless it leads a relative path
Components(s) ==
    LET pieces == Split(s, Sep)
        kept == {i \in 1..Len(pieces) :
                     /\ Len(pieces[i]) > 0
                     /\ (pieces[i] = Dot => (i = 1 /\ ~IsAbsolute(s)))}
        RECURSIVE InOrder(_)
        InOrder(i) ==
            IF i > Len(pieces) THEN <<>>
            ELSE (IF i \in kept THEN <<pieces[i]>> ELSE <<>>) \o InOrder(i + 1)
    IN  (IF IsAbsolute(s) THEN <<RootDir>> ELSE <<>>) \o InOrder(1)

\* a Component::Normal: neither the root, nor "." nor ".."
IsNormal(c) == c \notin {RootDir, Dot, DotDot}

\* Path::file_name: the last component when it is a normal one
FileName(s) ==
    LET comps == Components(s)
    IN  IF Len(comps) = 0 THEN None
        ELSE IF IsNormal(comps[Len(comps)]) THEN Some(comps[Len(comps)])
        ELSE None

RECURSIVE StripTrailing(_)
\* the path up to the end of its last component: trailing separators and
\* trailing "." pieces are not part of it
StripTrailing(s) ==
    IF Len(s) > 1 /\ s[Len(s)] = Sep THEN StripTrailing(SubSeq(s, 1, Len(s) - 1))
    ELSE IF Len(s) > 2 /\ SubSeq(s, Len(s) - 1, Len(s)) = <<Sep, ".">>
         THEN StripTrailing(SubSeq(s, 1, Len(s) - 2))
    ELSE s

\* the index of the last occurrence of a character, 0 when there is none
LastIndexOf(s, c) ==
    IF \E i \in 1..Len(s) : s[i] = c
    THEN CHOOSE i \in 1..Len(s) : s[i] = c /\ \A j \in (i + 1)..Len(s) : s[j] # c
    ELSE 0

\* Path::file_stem of a file name (rsplit_file_at_dot)
FileStem(name) ==
    LET dot == LastIndexOf(name, ".")
    IN  IF name = DotDot \/ dot <= 1 THEN name ELSE SubSeq(name, 1, dot - 1)

\* PathBuf::push / Path::join
JoinPath(base, path) ==
    IF IsAbsolute(path) THEN path
    ELSE IF Len(base) = 0 \/ base[Len(base)] = Sep THEN base \o path
    ELSE base \o <<Sep>> \o path

\* Path::with_extension: the path is cut at the end of the file stem and the
\* extension appended; a path without a file name is left as it is
WithExtension(s, ext) ==
    LET name == FileName(s)
    IN  IF IsNone(name) THEN s
        ELSE LET whole == StripTrailing(s)
                 start == Len(whole) - Len(Unwrap(name))
                 cut == SubSeq(whole, 1, start + Len(FileStem(Unwrap(name))))
             IN  IF Len(ext) = 0 THEN cut ELSE cut \o <<".">> \o ext

\* Path::parent as a string, for a path that has a file name
ParentOf(s) ==
    LET whole == StripTrailing(s)
        slash == LastIndexOf(whole, Sep)
    IN  IF slash = 0 THEN <<>>
        ELSE IF slash = 1 THEN RootDir
        ELSE StripTrailing(SubSeq(whole, 1, slash - 1))

\* Path::with_file_name: the file name, if any, is popped and the new one pushed
WithFileName(s, name) ==
    IF IsNone(FileName(s)) THEN JoinPath(s, name) ELSE JoinPath(ParentOf(s), name)

---------------------------------------------------------------------------
(* spec.rs: the delimiter-joined list codecs *)

\* comma_separated::serialize
CommaSerialize(value) == Join(value, <<",">>)

\* a reader that splits on the wrong delimiter
CommaDeserializeSemicolon(s) ==
    IF Len(s) = 0 THEN <<>> ELSE MapSeq(Trim, Split(s, ";"))

\* comma_separated::deserialize
CommaDeserialize(s) ==
    IF Len(s) = 0 THEN <<>> ELSE MapSeq(Trim, Split(s, ","))

\* space_separated::serialize
SpaceSerialize(value) == Join(value, <<" ">>)

\* space_separated::deserialize
SpaceDeserialize(s) ==
    IF Len(s) = 0 THEN <<>> ELSE MapSeq(Trim, Split(s, " "))

\* semicolon_separated::serialize
SemicolonSerialize(value) == Join(value, <<";">>)

\* semicolon_separated::deserialize
SemicolonDeserialize(s) ==
    IF Len(s) = 0 THEN <<>> ELSE MapSeq(Trim, Split(s, ";"))

---------------------------------------------------------------------------
(* The document the XML writer is handed and the XML reader hands back: an  *)
(* element has a name, a text and children; an attribute `a` is the child   *)
(* named "@a" and the text content of a tagged enum the child "$text", as   *)
(* in the serde renames of spec.rs.                                         *)

Leaf(name, text) == [name |-> name, text |-> text, children |-> <<>>]

Node(name, children) == [name |-> name, text |-> <<>>, children |-> children]

\* a field with skip_serializing_if = "Option::is_none"
OptLeaf(name, o) == IF IsNone(o) THEN <<>> ELSE <<Leaf(name, Unwrap(o))>>

ExpressionTag == <<"e", "x", "p", "r", "e", "s", "s", "i", "o", "n">>

FileTag == <<"f", "i", "l", "e">>

\* enum License, #[serde(tag = "@type", content = "$text")]
SerLicense(l) ==
    Node("license",
         <<Leaf("@type", IF l.type = "expression" THEN ExpressionTag ELSE FileTag),
           Leaf("$text", l.text)>>)

\* struct Repository
SerRepository(r) ==
    Node("repository",
         OptLeaf("@type", r.type) \o OptLeaf("@url", r.url)
           \o OptLeaf("@branch", r.branch) \o OptLeaf("@commit", r.commit))

\* struct Dependency: include and exclude go through optional_comma_separated
SerDependency(d) ==
    Node("dependency",
         <<Leaf("@id", d.id), Leaf("@version", d.version)>>
           \o (IF IsNone(d.include) THEN <<>>
               ELSE <<Leaf("@include", CommaSerialize(Unwrap(d.include)))>>)
           \o (IF IsNone(d.exclude) THEN <<>>
               ELSE <<Leaf("@exclude", CommaSerialize(Unwrap(d.exclude)))>>))

\* struct File: exclude goes through optional_semicolon_separated
SerFile(f) ==
    Node("file",
         <<Leaf("@src", f.src)>>
           \o OptLeaf("@target", f.target)
           \o (IF IsNone(f.exclude) THEN <<>>
               ELSE <<Leaf("@exclude", SemicolonSerialize(Unwrap(f.exclude)))>>))

\* a writer that skips an empty tag list as it skips an absent one
SerMetadataSkipEmptyTags(m) ==
    Node("metadata",
         <<Leaf("id", m.id), Leaf("version", m.version),
           Leaf("description", m.description),
           Leaf("authors", CommaSerialize(m.authors))>>
           \o (IF IsNone(m.tags) \/ m.tags = Some(<<>>) THEN <<>>
               ELSE <<Leaf("tags", SpaceSerialize(Unwrap(m.tags)))>>))

\* struct Metadata, its fields in declaration order; authors is always written,
\* and always under the name `authors`
SerMetadata(m) ==
    Node("metadata",
         <<Leaf("id", m.id), Leaf("version", m.version),
           Leaf("description", m.description),
           Leaf("authors", CommaSerialize(m.authors))>>
           \o OptLeaf("projectUrl", m.projectUrl)
           \o (IF IsNone(m.license) THEN <<>> ELSE <<SerLicense(Unwrap(m.license))>>)
           \o OptLeaf("readme", m.readme)
           \o (IF IsNone(m.tags) THEN <<>>
               ELSE <<Leaf("tags", SpaceSerialize(Unwrap(m.tags)))>>)
           \o (IF IsNone(m.repository) THEN <<>>
               ELSE <<SerRepository(Unwrap(m.repository))>>)
           \o (IF IsNone(m.dependencies) THEN <<>>
               ELSE <<Node("dependencies",
                           MapSeq(SerDependency, Unwrap(m.dependencies)))>>))

\* struct Package
SerPackage(p) ==
    Node("package",
         OptLeaf("@xmlns", p.namespace)
           \o <<SerMetadata(p.metadata)>>
           \o (IF IsNone(p.files) THEN <<>>
               ELSE <<Node("files", MapSeq(SerFile, Unwrap(p.files)))>>))

---------------------------------------------------------------------------
(* Deserialization.  A result is [ok, err, value].  Every struct denies     *)
(* unknown fields, and a field met twice (under its name or an alias) is a   *)
(* duplicate field unless it is a Vec, whose elements repeat.                *)

Ok(v) == [ok |-> TRUE, err |-> "", value |-> v]

Err(e, v) == [ok |-> FALSE, err |-> e, value |-> v]

Field(field, names, many) == [field |-> field, names |-> names, many |-> many]

RECURSIVE Collect(_, _, _)
\* the fields of a struct read from the children of its element, in document order
Collect(children, table, got) ==
    IF Len(children) = 0 THEN [ok |-> TRUE, err |-> "", got |-> got]
    ELSE LET c == Head(children)
             hit == {t \in table : c.name \in t.names}
         IN  IF hit = {} THEN [ok |-> FALSE, err |-> "unknown field", got |-> got]
             ELSE LET t == CHOOSE x \in hit : TRUE
                  IN  IF ~t.many /\ Len(got[t.field]) > 0
                      THEN [ok |-> FALSE, err |-> "duplicate field", got |-> got]
                      ELSE Collect(Tail(children), table,
                                   [got EXCEPT ![t.field] = Append(@, c)])

Fields(children, table) ==
    Collect(children, table, [f \in {t.field : t \in table} |-> <<>>])

\* a String field with #[serde(default)]
TextOr(elems, default) == IF Len(elems) = 0 THEN default ELSE elems[1].text

\* an Option<String> field
OptText(elems) == IF Len(elems) = 0 THEN None ELSE Some(elems[1].text)

\* an Option<Vec<String>> field with #[serde(default, with = "optional_*")]
OptList(Decode(_), elems) ==
    IF Len(elems) = 0 THEN None ELSE Some(Decode(elems[1].text))

AllOk(results) == \A i \in 1..Len(results) : results[i].ok

FirstErr(results) ==
    results[CHOOSE i \in 1..Len(results) :
                /\ ~results[i].ok
                /\ \A j \in 1..(i - 1) : results[j].ok].err

Values(results) == [i \in 1..Len(results) |-> results[i].value]

\* an Option<T> field holding a struct: absent is None
OptResult(De(_), elems, default) ==
    IF Len(elems) = 0 THEN Ok(None)
    ELSE LET r == De(elems[1])
         IN  IF r.ok THEN Ok(Some(r.value)) ELSE Err(r.err, None)

DefaultLicense == [type |-> "expression", text |-> <<>>]

LicenseFields ==
    {Field("type", {"@type"}, FALSE), Field("text", {"$text"}, FALSE)}

DeLicense(e) ==
    LET c == Fields(e.children, LicenseFields)
    IN  IF ~c.ok THEN Err(c.err, DefaultLicense)
        ELSE IF Len(c.got.type) = 0 THEN Err("missing field", DefaultLicense)
        ELSE IF c.got.type[1].text = ExpressionTag
             THEN Ok([type |-> "expression", text |-> TextOr(c.got.text, <<>>)])
        ELSE IF c.got.type[1].text = FileTag
             THEN Ok([type |-> "file", text |-> TextOr(c.got.text, <<>>)])
        ELSE Err("unknown variant", DefaultLicense)

DefaultRepository == [type |-> None, url |-> None, branch |-> None, commit |-> None]

RepositoryFields ==
    {Field("type", {"@type", "type"}, FALSE), Field("url", {"@url", "url"}, FALSE),
     Field("branch", {"@branch", "branch"}, FALSE),
     Field("commit", {"@commit", "commit"}, FALSE)}

DeRepository(e) ==
    LET c == Fields(e.children, RepositoryFields)
    IN  IF ~c.ok THEN Err(c.err, DefaultRepository)
        ELSE Ok([type |-> OptText(c.got.type), url |-> OptText(c.got.url),
                 branch |-> OptText(c.got.branch), commit |-> OptText(c.got.commit)])

DefaultDependency == [id |-> <<>>, version |-> <<>>, include |-> None, exclude |-> None]

DependencyFields ==
    {Field("id", {"@id", "id"}, FALSE), Field("version", {"@version", "version"}, FALSE),
     Field("include", {"@include", "include"}, FALSE),
     Field("exclude", {"@exclude", "exclude"}, FALSE)}

DeDependency(e) ==
    LET c == Fields(e.children, DependencyFields)
    IN  IF ~c.ok THEN Err(c.err, DefaultDependency)
        ELSE IF Len(c.got.id) = 0 \/ Len(c.got.version) = 0
             THEN Err("missing field", DefaultDependency)
        ELSE Ok([id |-> c.got.id[1].text, version |-> c.got.version[1].text,
                 include |-> OptList(CommaDeserialize, c.got.include),
                 exclude |-> OptList(CommaDeserialize, c.got.exclude)])

DependenciesFields == {Field("dependency", {"dependency"}, TRUE)}

\* struct Dependencies, its flat list
DeDependencies(e) ==
    LET c == Fields(e.children, DependenciesFields)
    IN  IF ~c.ok THEN Err(c.err, <<>>)
        ELSE LET rs == MapSeq(DeDependency, c.got.dependency)
             IN  IF AllOk(rs) THEN Ok(Values(rs)) ELSE Err(FirstErr(rs), <<>>)

DefaultFile == [src |-> <<>>, target |-> None, exclude |-> None]

FileFields ==
    {Field("src", {"@src", "src"}, FALSE), Field("target", {"@target", "target"}, FALSE),
     Field("exclude", {"@exclude", "exclude"}, FALSE)}

DeFile(e) ==
    LET c == Fields(e.children, FileFields)
    IN  IF ~c.ok THEN Err(c.err, DefaultFile)
        ELSE IF Len(c.got.src) = 0 THEN Err("missing field", DefaultFile)
        ELSE Ok([src |-> c.got.src[1].text, target |-> OptText(c.got.target),
                 exclude |-> OptList(SemicolonDeserialize, c.got.exclude)])

FilesFields == {Field("file", {"file"}, TRUE)}

\* struct Files: `file` is a Vec without a default
DeFiles(e) ==
    LET c == Fields(e.children, FilesFields)
    IN  IF ~c.ok THEN Err(c.err, <<>>)
        ELSE IF Len(c.got.file) = 0 THEN Err("missing field", <<>>)
        ELSE LET rs == MapSeq(DeFile, c.got.file)
             IN  IF AllOk(rs) THEN Ok(Values(rs)) ELSE Err(FirstErr(rs), <<>>)

DefaultMetadata ==
    [id |-> <<>>, version |-> <<>>, description |-> <<>>, authors |-> <<>>,
     projectUrl |-> None, license |-> None, readme |-> None, tags |-> None,
     repository |-> None, dependencies |-> None]

\* the field table without the owners alias
MetadataFieldsNoOwners ==
    {Field("id", {"id"}, FALSE), Field("version", {"version"}, FALSE),
     Field("description", {"description", "summary"}, FALSE),
     Field("authors", {"authors"}, FALSE),
     Field("projectUrl", {"projectUrl", "project_url"}, FALSE),
     Field("license", {"license"}, FALSE), Field("readme", {"readme"}, FALSE),
     Field("tags", {"tags"}, FALSE), Field("repository", {"repository"}, FALSE),
     Field("dependencies", {"dependencies"}, FALSE)}

\* struct Metadata: the names and aliases of the modelled fields
MetadataFields ==
    {Field("id", {"id"}, FALSE), Field("version", {"version"}, FALSE),
     Field("description", {"description", "summary"}, FALSE),
     Field("authors", {"authors", "owners"}, FALSE),
     Field("projectUrl", {"projectUrl", "project_url"}, FALSE),
     Field("license", {"license"}, FALSE), Field("readme", {"readme"}, FALSE),
     Field("tags", {"tags"}, FALSE), Field("repository", {"repository"}, FALSE),
     Field("dependencies", {"dependencies"}, FALSE)}

DeMetadata(e) ==
    LET c == Fields(e.children, MetadataFields)
    IN  IF ~c.ok THEN Err(c.err, DefaultMetadata)
        ELSE LET lic == OptResult(DeLicense, c.got.license, DefaultLicense)
                 rep == OptResult(DeRepository, c.got.repository, DefaultRepository)
                 dep == OptResult(DeDependencies, c.got.dependencies, <<>>)
                 rs == <<lic, rep, dep>>
             IN  IF ~AllOk(rs) THEN Err(FirstErr(rs), DefaultMetadata)
                 ELSE Ok([id |-> TextOr(c.got.id, <<>>),
                          version |-> TextOr(c.got.version, <<>>),
                          description |-> TextOr(c.got.description, <<>>),
                          authors |-> CommaDeserialize(TextOr(c.got.authors, <<>>)),
                          projectUrl |-> OptText(c.got.projectUrl),
                          license |-> lic.value,
                          readme |-> OptText(c.got.readme),
                          tags |-> OptList(SpaceDeserialize, c.got.tags),
                          repository |-> rep.value,
                          dependencies |-> dep.value])

DefaultPackage == [namespace |-> None, metadata |-> DefaultMetadata, files |-> None]

PackageFields ==
    {Field("namespace", {"@xmlns", "xmlns"}, FALSE),
     Field("metadata", {"metadata"}, FALSE), Field("files", {"files"}, FALSE)}

DePackage(e) ==
    LET c == Fields(e.children, PackageFields)
    IN  IF ~c.ok THEN Err(c.err, DefaultPackage)
        ELSE LET md == IF Len(c.got.metadata) = 0 THEN Ok(DefaultMetadata)
                       ELSE DeMetadata(c.got.metadata[1])
                 fl == OptResult(DeFiles, c.got.files, <<>>)
             IN  IF ~md.ok THEN Err(md.err, DefaultPackage)
                 ELSE IF ~fl.ok THEN Err(fl.err, DefaultPackage)
                 ELSE Ok([namespace |-> OptText(c.got.namespace),
                          metadata |-> md.value, files |-> fl.value])

---------------------------------------------------------------------------
(* generate.rs: get_relative_path.  A canonical path is the sequence of its *)
(* components; the first is the root (on Windows, the volume prefix).       *)

\* Iterator::next on the components left
NextOf(comps) == IF Len(comps) = 0 THEN None ELSE Some(Head(comps))

Rest(comps) == IF Len(comps) = 0 THEN <<>> ELSE Tail(comps)

\* both iterators advanced by one: lines 508-509 and 511-512
Advance(w) ==
    [from_dir_components |-> Rest(w.from_dir_components),
     to_file_components |-> Rest(w.to_file_components),
     from_dir_component |-> NextOf(w.from_dir_components),
     to_file_component |-> NextOf(w.to_file_components)]

\* the iterators once the first components were taken and compared (line 503)
AfterRoot(from, to) ==
    [from_dir_components |-> Rest(from), to_file_components |-> Rest(to),
     from_dir_component |-> NextOf(from), to_file_component |-> NextOf(to)]

\* the condition of the while loop of line 510
SameComponent(w) == w.from_dir_component = w.to_file_component

\* PathBuf::to_string_lossy of a canonical path
PathString(comps) ==
    IF Head(comps) = RootDir THEN RootDir \o Join(Tail(comps), <<Sep>>)
    ELSE Join(comps, <<Sep>>)

\* a mutant: the `..` of the component the loop consumed is not added
BuildRelativeOneShort(w) ==
    Join((IF IsSome(w.from_dir_component)
          THEN [i \in 1..Len(w.from_dir_components) |-> DotDot] ELSE <<>>)
         \o (IF IsSome(w.to_file_component)
             THEN <<Unwrap(w.to_file_component)>> \o w.to_file_components ELSE <<>>),
         <<Sep>>)

\* lines 515-532: one `..` for the component at hand and one for each left in
\* from_dir, then the component at hand and those left in to_file
BuildRelative(w) ==
    Join((IF IsSome(w.from_dir_component)
          THEN <<DotDot>> \o [i \in 1..Len(w.from_dir_components) |-> DotDot]
          ELSE <<>>)
         \o (IF IsSome(w.to_file_component)
             THEN <<Unwrap(w.to_file_component)>> \o w.to_file_components ELSE <<>>),
         <<Sep>>)

---------------------------------------------------------------------------
(* generate.rs: push_file *)

\* a mutant: an entry matches when its file name is the name
MatchesFileName(list, name) == {i \in 1..Len(list) : FileName(list[i].src) = Some(name)}

\* the entry already in the list whose src ends with the name, if any
Matches(list, name) == {i \in 1..Len(list) : EndsWith(list[i].src, name)}

\* a mutant: the new entry is put in front of the list
PushFileInFront(list, src, target) ==
    LET name == FileName(src)
    IN  IF IsNone(name) THEN list
        ELSE IF Matches(list, Unwrap(name)) # {} THEN list
        ELSE <<[src |-> src,
                target |-> Some(JoinPath(target, Unwrap(name))),
                exclude |-> None]>> \o list

\* push_file(&mut files, src, target): nothing is added when src has no file
\* name or when the src of an entry of the list ends with that file name
PushFile(list, src, target) ==
    LET name == FileName(src)
    IN  IF IsNone(name) THEN list
        ELSE IF Matches(list, Unwrap(name)) # {} THEN list
        ELSE Append(list, [src |-> src,
                           target |-> Some(JoinPath(target, Unwrap(name))),
                           exclude |-> None])
---------------------------------------------------------------------------
(* The filesystem the resolver sees: the canonical paths of its directories *)
(* and files, and what each manifest file parses to.  There are no symbolic *)
(* links, so canonicalize makes a path absolute and resolves `.` and `..`.  *)

\* a canonical path from its string
P(s) == Components(s)

RECURSIVE Walk(_, _, _, _)
\* the canonical path reached from `cur` along the components left; with
\* `create`, the last component need not exist (File::create, create_dir)
Walk(fs, cur, comps, create) ==
    IF Len(comps) = 0 THEN [ok |-> TRUE, path |-> cur]
    ELSE IF Head(comps) \in {RootDir, Dot} THEN Walk(fs, cur, Tail(comps), create)
    ELSE IF cur \notin fs.dirs THEN [ok |-> FALSE, path |-> cur]
    ELSE IF Head(comps) = DotDot
         THEN Walk(fs, IF Len(cur) > 1 THEN SubSeq(cur, 1, Len(cur) - 1) ELSE cur,
                   Tail(comps), create)
    ELSE LET next == Append(cur, Head(comps))
         IN  IF next \in fs.dirs \cup fs.files \/ (create /\ Len(comps) = 1)
             THEN Walk(fs, next, Tail(comps), create)
             ELSE [ok |-> FALSE, path |-> next]

\* where a path string leads in the filesystem
Locate(fs, cwd, s, create) ==
    IF Len(s) = 0 THEN [ok |-> FALSE, path |-> cwd]
    ELSE Walk(fs, IF IsAbsolute(s) THEN <<RootDir>> ELSE cwd, Components(s), create)

\* fs::canonicalize
Canon(fs, cwd, s) == Locate(fs, cwd, s, FALSE)

\* Path::exists
Exists(fs, cwd, s) == Canon(fs, cwd, s).ok

\* Path::is_dir
IsDir(fs, cwd, s) == Canon(fs, cwd, s).ok /\ Canon(fs, cwd, s).path \in fs.dirs

\* the path a string names, `.` and `..` resolved without looking at the disk
Lexical(cwd, s) ==
    LET RECURSIVE Go(_, _)
        Go(cur, comps) ==
            IF Len(comps) = 0 THEN cur
            ELSE IF Head(comps) \in {RootDir, Dot} THEN Go(cur, Tail(comps))
            ELSE IF Head(comps) = DotDot
                 THEN Go(IF Len(cur) > 1 THEN SubSeq(cur, 1, Len(cur) - 1) ELSE cur,
                         Tail(comps))
            ELSE Go(Append(cur, Head(comps)), Tail(comps))
    IN  Go(IF IsAbsolute(s) THEN <<RootDir>> ELSE cwd, Components(s))

Prefixes(path) == {SubSeq(path, 1, k) : k \in 1..Len(path)}

\* fs::create_dir_all: every missing directory on the way is made; it fails when
\* something on the way is a file
CreateDirAll(fs, cwd, s) ==
    LET path == Lexical(cwd, s)
    IN  IF Prefixes(path) \cap fs.files # {} THEN [ok |-> FALSE, fs |-> fs]
        ELSE [ok |-> TRUE, fs |-> [fs EXCEPT !.dirs = @ \cup Prefixes(path)]]

RECURSIVE SkipAll(_)
\* the loop of lines 510-513 run to its end; it has none when both iterators
\* are exhausted together, the two current items being None for ever
SkipAll(w) ==
    IF ~SameComponent(w) THEN [hang |-> FALSE, walk |-> w]
    ELSE IF Advance(w) = w THEN [hang |-> TRUE, walk |-> w]
    ELSE SkipAll(Advance(w))

\* get_relative_path(from_dir, to_file): status "ok" with the path, "err" when
\* canonicalize fails, "hang" when the call does not return
GetRelativePath(fs, cwd, from, to) ==
    LET t == Canon(fs, cwd, to)
        f == Canon(fs, cwd, from)
    IN  IF ~t.ok \/ ~f.ok THEN [status |-> "err", path |-> <<>>]
        ELSE IF Head(f.path) # Head(t.path)
             THEN [status |-> "ok", path |-> PathString(t.path)]
        ELSE LET w == SkipAll(Advance(AfterRoot(f.path, t.path)))
             IN  IF w.hang THEN [status |-> "hang", path |-> <<>>]
                 ELSE [status |-> "ok", path |-> BuildRelative(w.walk)]

\* Path::parent: None for the root and for the empty path
Parent(s) ==
    LET comps == Components(s)
    IN  IF Len(comps) = 0 \/ comps[Len(comps)] = RootDir THEN None
        ELSE Some(ParentOf(s))

\* Path::ends_with: the components of `child` end those of the path
PathEndsWith(s, child) ==
    LET a == Components(s)
        b == Components(child)
    IN  /\ Len(b) <= Len(a)
        /\ SubSeq(a, Len(a) - Len(b) + 1, Len(a)) = b

RECURSIVE ProfileAncestor(_, _)
\* the loop of lines 485-490
ProfileAncestor(out_path, profile) ==
    LET parent == Parent(out_path)
    IN  IF IsNone(parent) THEN None
        ELSE IF PathEndsWith(Unwrap(parent), profile) THEN parent
        ELSE ProfileAncestor(Unwrap(parent), profile)

\* a mutant: OUT_DIR itself is the first directory looked at
GetBuildArtifactsPathFromOutDir(env) ==
    IF IsNone(env.OUT_DIR) \/ IsNone(env.PROFILE) THEN Err("MissingEnvironment", <<>>)
    ELSE IF PathEndsWith(Unwrap(env.OUT_DIR), Unwrap(env.PROFILE)) THEN Ok(Unwrap(env.OUT_DIR))
    ELSE LET found == ProfileAncestor(Unwrap(env.OUT_DIR), Unwrap(env.PROFILE))
         IN  IF IsNone(found) THEN Err("No output directory found", <<>>)
             ELSE Ok(Unwrap(found))

\* get_build_artifacts_path: [ok, err, value]
GetBuildArtifactsPath(env) ==
    IF IsNone(env.OUT_DIR) \/ IsNone(env.PROFILE) THEN Err("MissingEnvironment", <<>>)
    ELSE LET found == ProfileAncestor(Unwrap(env.OUT_DIR), Unwrap(env.PROFILE))
         IN  IF IsNone(found) THEN Err("No output directory found", <<>>)
             ELSE Ok(Unwrap(found))

CargoToml == <<"C", "a", "r", "g", "o", ".", "t", "o", "m", "l">>

RECURSIVE WorkspaceAncestor(_, _, _)
\* the loop of lines 543-551: the first parent directory that holds a Cargo.toml
WorkspaceAncestor(fs, cwd, workspace_path) ==
    LET parent == Parent(workspace_path)
    IN  IF IsNone(parent) THEN None
        ELSE IF Exists(fs, cwd, JoinPath(Unwrap(parent), CargoToml))
             THEN Some(JoinPath(Unwrap(parent), CargoToml))
        ELSE WorkspaceAncestor(fs, cwd, Unwrap(parent))

\* get_workspace_manifest_path: [ok, err, value], the value being the
\* `workspace` table of the manifest found (an Option<Manifest>)
GetWorkspaceManifestPath(fs, cwd, env) ==
    IF IsNone(env.CARGO_MANIFEST_DIR) THEN Err("MissingEnvironment", None)
    ELSE LET found == WorkspaceAncestor(fs, cwd, Unwrap(env.CARGO_MANIFEST_DIR))
         IN  IF IsNone(found) THEN Err("No workspace manifest found", None)
             ELSE LET file == Canon(fs, cwd, Unwrap(found)).path
                  IN  IF file \notin DOMAIN fs.toml THEN Err("manifest", None)
                      ELSE Ok(fs.toml[file].workspace)
---------------------------------------------------------------------------
(* generate.rs: load_package_config.  `in` is what the call reads: the       *)
(* environment, the filesystem, the working directory and the platform the   *)
(* crate was compiled for.  The call is a chain of stages over a record `c`; *)
(* a stage does nothing once c.status is no longer "run" (the `?` returns).  *)

\* a mutant: the files written so far are emptied before the error is returned
FailTruncating(c, e) ==
    [c EXCEPT !.status = "err", !.err = e,
              !.fs.content = [f \in DOMAIN c.fs.content |-> <<>>]]

Fail(c, e) == [c EXCEPT !.status = "err", !.err = e]

Hang(c) == [c EXCEPT !.status = "hang"]

\* a mutant: the crate is never taken to be compiled for Windows
IsWindowsNever(in) == FALSE

IsWindows(in) == in.platform \in {"windows_msvc", "windows_gnu"}

\* str::replace("-", "_")
Underscored(s) == [i \in 1..Len(s) |-> IF s[i] = "-" THEN "_" ELSE s[i]]

DefaultNuspec == [package |-> None, out_dir |-> None]

\* manifest.package.and_then(|p| p.metadata).and_then(|m| m.nuspec).unwrap_or_default()
NuspecConfig(manifest) ==
    IF IsNone(manifest.package) THEN DefaultNuspec
    ELSE IF IsNone(Unwrap(manifest.package).metadata) THEN DefaultNuspec
    ELSE IF IsNone(Unwrap(Unwrap(manifest.package).metadata).nuspec) THEN DefaultNuspec
    ELSE Unwrap(Unwrap(Unwrap(manifest.package).metadata).nuspec)

\* lines 104-107: the manifest is read and parsed, the artifacts directory found
ReadManifest(in, out_dir) ==
    LET c0 == [status |-> "run", err |-> "", fs |-> in.fs, manifest |-> <<>>,
               build_artifacts_path |-> <<>>, out_dir |-> out_dir,
               pkg |-> DefaultPackage, files |-> <<>>, pkg_name |-> <<>>,
               warnings |-> <<>>, workspace_read |-> FALSE]
    IN  IF IsNone(in.env.CARGO_MANIFEST_PATH) THEN Fail(c0, "MissingEnvironment")
        ELSE LET file == Canon(in.fs, in.cwd, Unwrap(in.env.CARGO_MANIFEST_PATH))
             IN  IF ~file.ok \/ file.path \notin DOMAIN in.fs.toml
                 THEN Fail(c0, "manifest")
                 ELSE LET found == GetBuildArtifactsPath(in.env)
                      IN  IF ~found.ok THEN Fail(c0, found.err)
                          ELSE [c0 EXCEPT !.manifest = in.fs.toml[file.path],
                                          !.build_artifacts_path = found.value]

\* a mutant: the declared out_dir is used even when it is the empty string
DeclaredOutDirEvenEmpty(nuspec_config, out_dir) ==
    IF IsSome(nuspec_config.out_dir) THEN Unwrap(nuspec_config.out_dir) ELSE out_dir

\* lines 114-124: the declared out_dir unless it is absent or empty
DeclaredOutDir(nuspec_config, out_dir) ==
    IF IsSome(nuspec_config.out_dir) /\ Len(Unwrap(nuspec_config.out_dir)) > 0
    THEN Unwrap(nuspec_config.out_dir)
    ELSE out_dir

\* lines 108-130: the output directory is chosen, made if missing, and checked
ResolveOutDir(in, c) ==
    IF c.status # "run" THEN c
    ELSE LET dir == DeclaredOutDir(NuspecConfig(c.manifest), c.out_dir)
             made == IF Exists(c.fs, in.cwd, dir) THEN [ok |-> TRUE, fs |-> c.fs]
                     ELSE CreateDirAll(c.fs, in.cwd, dir)
         IN  IF ~made.ok THEN Fail(c, "OutputError")
             ELSE IF ~IsDir(made.fs, in.cwd, dir)
                  THEN Fail([c EXCEPT !.fs = made.fs, !.out_dir = dir], "OutputError")
             ELSE [c EXCEPT !.fs = made.fs, !.out_dir = dir]

RECURSIVE RewriteDeclared(_, _, _, _)
\* lines 133-138: a declared entry with a relative src gets the path from out_dir
RewriteDeclared(in, c, list, done) ==
    IF Len(list) = 0 THEN [c EXCEPT !.files = done]
    ELSE IF IsAbsolute(Head(list).src)
         THEN RewriteDeclared(in, c, Tail(list), Append(done, Head(list)))
    ELSE LET r == GetRelativePath(c.fs, in.cwd, c.out_dir, Head(list).src)
         IN  IF r.status = "err" THEN Fail(c, "PathError")
             ELSE IF r.status = "hang" THEN Hang(c)
             ELSE RewriteDeclared(in, c, Tail(list),
                                  Append(done, [Head(list) EXCEPT !.src = r.path]))

\* a mutant: the declared entries are kept as they are written
DeclaredPackageVerbatim(in, c) ==
    IF c.status # "run" THEN c
    ELSE LET config == NuspecConfig(c.manifest)
             pkg == IF IsNone(config.package) THEN DefaultPackage
                    ELSE Unwrap(config.package)
             list == IF IsNone(pkg.files) THEN <<>> ELSE Unwrap(pkg.files)
         IN  [c EXCEPT !.pkg = pkg, !.files = list]

\* lines 131-138: the declared package and its declared files
DeclaredPackage(in, c) ==
    IF c.status # "run" THEN c
    ELSE LET config == NuspecConfig(c.manifest)
             pkg == IF IsNone(config.package) THEN DefaultPackage
                    ELSE Unwrap(config.package)
             list == IF IsNone(pkg.files) THEN <<>> ELSE Unwrap(pkg.files)
         IN  RewriteDeclared(in, [c EXCEPT !.pkg = pkg], list, <<>>)

\* Result::unwrap_or_default of env::var
OrEmpty(o) == IF IsNone(o) THEN <<>> ELSE Unwrap(o)

\* the match of lines 158-167: an environment value that is set and not empty
NonEmpty(o) == IF IsSome(o) /\ Len(Unwrap(o)) > 0 THEN o ELSE None

\* lines 151-155: the authors of CARGO_PKG_AUTHORS
EnvAuthors(env) == MapSeq(Trim, Split(OrEmpty(env.CARGO_PKG_AUTHORS), ":"))

\* a mutant: the environment's version replaces a declared one
VersionFromEnvAlways(version, env) == OrEmpty(env.CARGO_PKG_VERSION)

\* lines 144-146
ResolveVersion(version, env) ==
    IF Len(version) = 0 THEN OrEmpty(env.CARGO_PKG_VERSION) ELSE version

\* lines 140-168: id, version, description, authors, projectUrl
Identity(in, c) ==
    IF c.status # "run" THEN c
    ELSE IF IsNone(in.env.CARGO_PKG_NAME) THEN Fail(c, "MissingEnvironment")
    ELSE LET m == c.pkg.metadata
             pkg_name == Unwrap(in.env.CARGO_PKG_NAME)
         IN  [c EXCEPT
                !.pkg_name = pkg_name,
                !.pkg.metadata.id = IF Len(m.id) = 0 THEN pkg_name ELSE m.id,
                !.pkg.metadata.version = ResolveVersion(m.version, in.env),
                !.pkg.metadata.description =
                    IF Len(m.description) = 0
                    THEN OrEmpty(in.env.CARGO_PKG_DESCRIPTION) ELSE m.description,
                !.pkg.metadata.authors =
                    IF Len(m.authors) = 0 THEN EnvAuthors(in.env) ELSE m.authors,
                !.pkg.metadata.projectUrl =
                    IF IsNone(m.projectUrl) THEN NonEmpty(in.env.CARGO_PKG_HOMEPAGE)
                    ELSE m.projectUrl]

\* lines 250-266 and 181-199: a file named by the environment becomes a file
\* entry at the package root; the value is its file name
RootFile(in, c, path) ==
    LET r == GetRelativePath(c.fs, in.cwd, c.out_dir, path)
    IN  IF r.status = "err" THEN Fail(c, "PathError")
        ELSE IF r.status = "hang" THEN Hang(c)
        ELSE IF IsNone(FileName(r.path)) THEN Fail(c, "PathError")
        ELSE [c EXCEPT !.files = PushFile(c.files, r.path, <<>>)]

\* a mutant: the license file is looked at before the license expression
ResolveLicenseFileFirst(in, c) ==
    IF c.status # "run" \/ IsSome(c.pkg.metadata.license) THEN c
    ELSE IF IsNone(NonEmpty(in.env.CARGO_PKG_LICENSE_FILE))
         THEN IF IsNone(NonEmpty(in.env.CARGO_PKG_LICENSE)) THEN c
              ELSE [c EXCEPT !.pkg.metadata.license =
                        Some([type |-> "expression", text |-> Unwrap(in.env.CARGO_PKG_LICENSE)])]
    ELSE LET d == RootFile(in, c, Unwrap(in.env.CARGO_PKG_LICENSE_FILE))
             r == GetRelativePath(c.fs, in.cwd, c.out_dir,
                                  Unwrap(in.env.CARGO_PKG_LICENSE_FILE))
         IN  IF d.status # "run" THEN d
             ELSE [d EXCEPT !.pkg.metadata.license =
                       Some([type |-> "file", text |-> Unwrap(FileName(r.path))])]

\* lines 169-199: the license expression, else the license file
ResolveLicense(in, c) ==
    IF c.status # "run" \/ IsSome(c.pkg.metadata.license) THEN c
    ELSE IF IsSome(NonEmpty(in.env.CARGO_PKG_LICENSE))
         THEN [c EXCEPT !.pkg.metadata.license =
                   Some([type |-> "expression", text |-> Unwrap(in.env.CARGO_PKG_LICENSE)])]
    ELSE IF IsNone(NonEmpty(in.env.CARGO_PKG_LICENSE_FILE)) THEN c
    ELSE LET d == RootFile(in, c, Unwrap(in.env.CARGO_PKG_LICENSE_FILE))
             r == GetRelativePath(c.fs, in.cwd, c.out_dir,
                                  Unwrap(in.env.CARGO_PKG_LICENSE_FILE))
         IN  IF d.status # "run" THEN d
             ELSE [d EXCEPT !.pkg.metadata.license =
                       Some([type |-> "file", text |-> Unwrap(FileName(r.path))])]

\* a mutant: a delegation marker in the workspace gives an empty keyword list
WorkspaceKeywordsMarkedEmpty(workspace) ==
    IF IsNone(workspace) THEN None
    ELSE IF IsNone(Unwrap(workspace).package) THEN None
    ELSE IF IsNone(Unwrap(Unwrap(workspace).package).keywords) THEN None
    ELSE LET k == Unwrap(Unwrap(Unwrap(workspace).package).keywords)
         IN  IF k.kind = "keywords" THEN Some(k.keywords) ELSE Some(<<>>)

\* lines 209-218: the keywords of the workspace table, one level only
WorkspaceKeywords(workspace) ==
    IF IsNone(workspace) THEN None
    ELSE IF IsNone(Unwrap(workspace).package) THEN None
    ELSE IF IsNone(Unwrap(Unwrap(workspace).package).keywords) THEN None
    ELSE LET k == Unwrap(Unwrap(Unwrap(workspace).package).keywords)
         IN  IF k.kind = "keywords" THEN Some(k.keywords) ELSE None

\* a mutant: the workspace manifest is looked up before the keywords are
\* inspected
ResolveTagsEager(in, c) ==
    IF c.status # "run" \/ IsSome(c.pkg.metadata.tags) THEN c
    ELSE IF IsNone(c.manifest.package) THEN c
    ELSE IF IsNone(Unwrap(c.manifest.package).keywords) THEN c
    ELSE LET k == Unwrap(Unwrap(c.manifest.package).keywords)
             w == GetWorkspaceManifestPath(c.fs, in.cwd, in.env)
         IN  IF ~w.ok THEN Fail([c EXCEPT !.workspace_read = TRUE], w.err)
             ELSE IF k.kind = "keywords"
             THEN [c EXCEPT !.workspace_read = TRUE, !.pkg.metadata.tags = Some(k.keywords)]
             ELSE IF ~k.workspace THEN [c EXCEPT !.workspace_read = TRUE]
             ELSE [c EXCEPT !.workspace_read = TRUE,
                            !.pkg.metadata.tags = WorkspaceKeywords(w.value)]

\* lines 201-233: tags from the manifest keywords
ResolveTags(in, c) ==
    IF c.status # "run" \/ IsSome(c.pkg.metadata.tags) THEN c
    ELSE IF IsNone(c.manifest.package) THEN c
    ELSE IF IsNone(Unwrap(c.manifest.package).keywords) THEN c
    ELSE LET k == Unwrap(Unwrap(c.manifest.package).keywords)
         IN  IF k.kind = "keywords" THEN [c EXCEPT !.pkg.metadata.tags = Some(k.keywords)]
             ELSE IF ~k.workspace THEN c
             ELSE LET w == GetWorkspaceManifestPath(c.fs, in.cwd, in.env)
                  IN  IF ~w.ok THEN Fail([c EXCEPT !.workspace_read = TRUE], w.err)
                      ELSE [c EXCEPT !.workspace_read = TRUE,
                                     !.pkg.metadata.tags = WorkspaceKeywords(w.value)]

\* lines 235-249
ResolveRepository(in, c) ==
    IF c.status # "run" \/ IsSome(c.pkg.metadata.repository) THEN c
    ELSE IF IsNone(NonEmpty(in.env.CARGO_PKG_REPOSITORY)) THEN c
    ELSE [c EXCEPT !.pkg.metadata.repository =
              Some([DefaultRepository EXCEPT !.url = in.env.CARGO_PKG_REPOSITORY])]

\* a mutant: the readme is the whole path from out_dir, not its file name
ResolveReadmeWholePath(in, c) ==
    IF c.status # "run" \/ IsSome(c.pkg.metadata.readme) THEN c
    ELSE IF IsNone(NonEmpty(in.env.CARGO_PKG_README)) THEN c
    ELSE LET d == RootFile(in, c, Unwrap(in.env.CARGO_PKG_README))
             r == GetRelativePath(c.fs, in.cwd, c.out_dir, Unwrap(in.env.CARGO_PKG_README))
         IN  IF d.status # "run" THEN d
             ELSE [d EXCEPT !.pkg.metadata.readme = Some(r.path)]

\* lines 250-266
ResolveReadme(in, c) ==
    IF c.status # "run" \/ IsSome(c.pkg.metadata.readme) THEN c
    ELSE IF IsNone(NonEmpty(in.env.CARGO_PKG_README)) THEN c
    ELSE LET d == RootFile(in, c, Unwrap(in.env.CARGO_PKG_README))
             r == GetRelativePath(c.fs, in.cwd, c.out_dir, Unwrap(in.env.CARGO_PKG_README))
         IN  IF d.status # "run" THEN d
             ELSE [d EXCEPT !.pkg.metadata.readme = Some(Unwrap(FileName(r.path)))]

\* a mutant: an artifact that cannot be resolved keeps its full path
ArtifactPathJoined(in, c, name) ==
    LET r == GetRelativePath(c.fs, in.cwd, c.out_dir,
                             JoinPath(c.build_artifacts_path, name))
    IN  IF r.status = "err"
        THEN [status |-> "ok", path |-> JoinPath(c.build_artifacts_path, name)]
        ELSE r

\* lines 269-272 and 311-314: the path from out_dir to an artifact, the bare
\* name when it cannot be resolved
ArtifactPath(in, c, name) ==
    LET r == GetRelativePath(c.fs, in.cwd, c.out_dir,
                             JoinPath(c.build_artifacts_path, name))
    IN  IF r.status = "err" THEN [status |-> "ok", path |-> name] ELSE r

\* lines 274-307: the entries of one binary
PushBinary(in, c, name) ==
    LET exe == ArtifactPath(in, c, name)
        pdb == ArtifactPath(in, c, Underscored(name))
    IN  IF exe.status = "hang" THEN Hang(c)
        ELSE IF ~IsWindows(in)
             THEN [c EXCEPT !.files = PushFile(c.files, exe.path, <<"t", "o", "o", "l", "s">>)]
        ELSE IF pdb.status = "hang"
             THEN Hang([c EXCEPT !.files =
                            PushFile(c.files, WithExtension(exe.path, <<"e", "x", "e">>), <<"t", "o", "o", "l", "s">>)])
        ELSE [c EXCEPT !.files =
                  PushFile(PushFile(c.files, WithExtension(exe.path, <<"e", "x", "e">>), <<"t", "o", "o", "l", "s">>),
                           WithExtension(pdb.path, <<"p", "d", "b">>), <<"t", "o", "o", "l", "s">>)]

RECURSIVE PushBinaries(_, _, _)
\* lines 268-308: every declared binary, in order
PushBinaries(in, c, binaries) ==
    IF c.status # "run" \/ Len(binaries) = 0 THEN c
    ELSE PushBinaries(in, PushBinary(in, c, Head(binaries).name), Tail(binaries))

Binaries(in, c) ==
    IF c.status # "run" THEN c
    ELSE PushBinaries(in, c, IF IsNone(c.manifest.binary) THEN <<>>
                             ELSE Unwrap(c.manifest.binary))

\* a mutant: a warning ends resolution with an error
WarnAndFail(c, w) == Fail(c, w)

Warn(c, w) == [c EXCEPT !.warnings = Append(@, w)]

Push(c, src, target) == [c EXCEPT !.files = PushFile(c.files, src, target)]

\* lines 328-441: the entries of one crate type
PushCrateType(in, c, crate_type, rel_path, name) ==
    CASE crate_type = "bin" ->
           IF IsWindows(in)
           THEN Push(Push(c, WithExtension(rel_path, <<"e", "x", "e">>), <<"t", "o", "o", "l", "s">>),
                     WithExtension(rel_path, <<"p", "d", "b">>), <<"t", "o", "o", "l", "s">>)
           ELSE Push(c, rel_path, <<"t", "o", "o", "l", "s">>)
      [] crate_type = "lib" -> Warn(c, "lib")
      [] crate_type = "rlib" ->
           Push(c, WithFileName(rel_path, <<"l", "i", "b">> \o name \o <<".", "r", "l", "i", "b">>), <<"l", "i", "b">>)
      [] crate_type \in {"cdylib", "dylib"} ->
           IF IsWindows(in)
           THEN Push(Push(c, WithExtension(rel_path, <<"d", "l", "l">>), <<"l", "i", "b">>),
                     WithExtension(rel_path, <<"p", "d", "b">>), <<"l", "i", "b">>)
           ELSE IF in.platform = "macos"
           THEN Push(c, WithFileName(rel_path, <<"l", "i", "b">> \o name \o <<".", "d", "y", "l", "i", "b">>), <<"l", "i", "b">>)
           ELSE Push(c, WithFileName(rel_path, <<"l", "i", "b">> \o name \o <<".", "s", "o">>), <<"l", "i", "b">>)
      [] crate_type = "staticlib" ->
           IF in.platform = "windows_msvc"
           THEN Push(c, WithExtension(rel_path, <<"l", "i", "b">>), <<"l", "i", "b">>)
           ELSE Push(c, WithFileName(rel_path, <<"l", "i", "b">> \o name \o <<".", "a">>), <<"l", "i", "b">>)
      [] crate_type = "proc-macro" -> Warn(c, "proc-macro")

RECURSIVE PushCrateTypes(_, _, _, _, _)
PushCrateTypes(in, c, crate_types, rel_path, name) ==
    IF Len(crate_types) = 0 THEN c
    ELSE PushCrateTypes(in, PushCrateType(in, c, Head(crate_types), rel_path, name),
                        Tail(crate_types), rel_path, name)

\* lines 309-444: the library block
Library(in, c) ==
    IF c.status # "run" \/ IsNone(c.manifest.lib) THEN c
    ELSE LET l == Unwrap(c.manifest.lib)
             name == IF IsNone(l.name) THEN Underscored(c.pkg_name) ELSE Unwrap(l.name)
             r == ArtifactPath(in, c, name)
         IN  IF r.status = "hang" THEN Hang(c)
             ELSE IF IsNone(l.crate_type) THEN Warn(c, "no crate-type")
             ELSE PushCrateTypes(in,
                                 IF Len(Unwrap(l.crate_type)) = 0
                                 THEN Warn(c, "no crate-type") ELSE c,
                                 Unwrap(l.crate_type), r.path, name)

\* lines 446-452
Finish(c) ==
    IF c.status # "run" THEN c
    ELSE [c EXCEPT !.status = "ok",
                   !.pkg.files = IF Len(c.files) = 0 THEN None ELSE Some(c.files)]

\* a mutant: the file is placed in the directory load_package_config resolved
OutputFileNameInResolved(out_dir, c) ==
    WithExtension(JoinPath(c.out_dir, c.pkg.metadata.id), <<"n", "u", "s", "p", "e", "c">>)

\* generate_to, lines 24-26: the name of the file to write
OutputFileName(out_dir, c) ==
    WithExtension(JoinPath(out_dir, c.pkg.metadata.id), <<"n", "u", "s", "p", "e", "c">>)

\* line 29: the first bytes written
Prolog == "<?xml version=\"1.0\" encoding=\"utf-8\"?>"

---------------------------------------------------------------------------
(* The codec run: a Package value is serialized and the document read back, *)
(* or a document written by someone else is read.                            *)

MaxElemLen == 2

MaxListLen == 2

MaxDocElems == 2

\* the strings of at most n characters over an alphabet
Strs(chars, n) == UNION {[1..k -> chars] : k \in 0..n}

\* the lists of at most n elements
Lists(elems, n) == UNION {[1..k -> elems] : k \in 0..n}

\* the lists a delimiter-joined field can hold, of letters, whitespace and its
\* delimiter: one element of any length, or several shorter ones
ListsFor(delimiter) ==
    Lists(Strs({"a", " ", delimiter}, MaxElemLen), 1)
      \cup Lists(Strs({"a", " ", delimiter}, MaxElemLen - 1), MaxListLen)

OptListsFor(delimiter) == {None} \cup {Some(l) : l \in ListsFor(delimiter)}

SampleDependency(include) ==
    [id |-> <<"a">>, version |-> <<"1">>, include |-> include, exclude |-> None]

SampleFile(exclude) == [src |-> <<"a">>, target |-> None, exclude |-> exclude]

SampleLicenses ==
    {None, Some([type |-> "expression", text |-> <<"a">>]),
     Some([type |-> "file", text |-> <<"a">>])}

SampleRepositories ==
    {None, Some(DefaultRepository), Some([DefaultRepository EXCEPT !.url = Some(<<"a">>)])}

\* the Package values of the run: one field is varied at a time
CodecValues ==
    {[DefaultPackage EXCEPT !.metadata.authors = l] : l \in ListsFor(",")}
      \cup {[DefaultPackage EXCEPT !.metadata.tags = o] : o \in OptListsFor(" ")}
      \cup {[DefaultPackage EXCEPT !.metadata.dependencies =
                 Some(<<SampleDependency(o)>>)] : o \in OptListsFor(",")}
      \cup {[DefaultPackage EXCEPT !.files = Some(<<SampleFile(o)>>)] :
                 o \in OptListsFor(";")}
      \cup {[DefaultPackage EXCEPT !.metadata.license = l, !.metadata.repository = r,
                                   !.metadata.projectUrl = u, !.namespace = u] :
                 l \in SampleLicenses, r \in SampleRepositories,
                 u \in {None, Some(<<>>), Some(<<"a">>)}}

DocElems ==
    {Leaf(n, t) : n \in {"id", "authors", "owners", "tags", "title2"},
                  t \in {<<>>, <<"a">>, <<"a", ",", "b">>}}

\* documents not written by this crate: a metadata element with any children
ForeignDocs ==
    {Node("package", <<Node("metadata", c)>>) : c \in Lists(DocElems, MaxDocElems)}

CodecIdle ==
    /\ cpc = "idle"
    /\ cval = <<>>
    /\ cdoc = <<>>
    /\ cres = <<>>

ListIdle ==
    /\ files = <<>>
    /\ declared = <<>>
    /\ added = <<>>

PathIdle ==
    /\ rpc = "idle"
    /\ from_dir = <<>>
    /\ to_file = <<>>
    /\ canon = <<>>
    /\ walk = <<>>
    /\ relative_path = <<>>

GenIdle ==
    /\ gpc = "idle"
    /\ inp = <<>>
    /\ arg_out_dir = <<>>
    /\ disk = <<>>
    /\ loaded = <<>>
    /\ file_name = <<>>
    /\ serialized = <<>>

RaceIdle ==
    /\ wpc = <<>>
    /\ output = <<>>
    /\ cursor = <<>>
    /\ shared = <<>>
    /\ log = <<>>

CodecInit ==
    /\ ListIdle
    /\ PathIdle
    /\ GenIdle
    /\ RaceIdle
    /\ cres = <<>>
    /\ \/ /\ cpc = "value"
          /\ cval \in CodecValues
          /\ cdoc = <<>>
       \/ /\ cpc = "document"
          /\ cval = <<>>
          /\ cdoc \in ForeignDocs

\* quick_xml::se::to_string(&package)
Serialize ==
    /\ cpc = "value"
    /\ cdoc' = SerPackage(cval)
    /\ cpc' = "serialized"
    /\ UNCHANGED <<cval, cres, listVars, pathVars, genVars, raceVars>>

\* quick_xml::de::from_str::<Package>(&serialized)
Deserialize ==
    /\ cpc \in {"serialized", "document"}
    /\ cres' = DePackage(cdoc)
    /\ cpc' = IF cpc = "serialized" THEN "roundtrip" ELSE "parsed"
    /\ UNCHANGED <<cval, cdoc, listVars, pathVars, genVars, raceVars>>

CodecNext == Serialize \/ Deserialize

CodecSpec == CodecInit /\ [][CodecNext]_vars

---------------------------------------------------------------------------
(* Claims about the codec *)

NoChar(s, c) == \A i \in 1..Len(s) : s[i] # c

\* a list whose elements are non-empty, trimmed and free of the delimiter
PlainList(l, delimiter) ==
    \A i \in 1..Len(l) :
        /\ Len(l[i]) > 0
        /\ Trim(l[i]) = l[i]
        /\ NoChar(l[i], delimiter)

PlainOptList(o, delimiter) == IsSome(o) => PlainList(Unwrap(o), delimiter)

PlainDependencies(o) ==
    IsSome(o) => \A i \in 1..Len(Unwrap(o)) :
                     /\ PlainOptList(Unwrap(o)[i].include, ",")
                     /\ PlainOptList(Unwrap(o)[i].exclude, ",")

PlainFiles(o) ==
    IsSome(o) => \A i \in 1..Len(Unwrap(o)) : PlainOptList(Unwrap(o)[i].exclude, ";")

PlainPackage(p) ==
    /\ PlainList(p.metadata.authors, ",")
    /\ PlainOptList(p.metadata.tags, " ")
    /\ PlainDependencies(p.metadata.dependencies)
    /\ PlainFiles(p.files)

ChildrenNamed(e, name) == SelectSeq(e.children, LAMBDA c : c.name = name)

MetadataOf(doc) == ChildrenNamed(doc, "metadata")[1]

\* what the serialized document holds for a tags value
TagsWritten(tags, doc) ==
    LET elems == ChildrenNamed(MetadataOf(doc), "tags")
    IN  IF IsNone(tags) THEN Len(elems) = 0
        ELSE /\ Len(elems) = 1
             /\ elems[1].text = IF Len(Unwrap(tags)) = 0 THEN <<>>
                                ELSE Join(Unwrap(tags), <<" ">>)

\* C7 as stated: Some([]) is written as an empty tags element, None as no tags
\* element, a non-empty list space-joined, and each is read back as the same value.
C7_TagsAnyStrings ==
    /\ cpc \in {"serialized", "roundtrip"} => TagsWritten(cval.metadata.tags, cdoc)
    /\ cpc = "roundtrip" =>
           (cres.ok /\ cres.value.metadata.tags = cval.metadata.tags)

\* C7, amended: Some([]) is written as an empty tags element, None as no tags
\* element, a non-empty list space-joined; Some([]) and None are read back as the
\* same value, and so is a non-empty list whose elements are non-empty and hold
\* no whitespace.
C7_TagsDistinction ==
    /\ cpc \in {"serialized", "roundtrip"} => TagsWritten(cval.metadata.tags, cdoc)
    /\ (cpc = "roundtrip" /\ PlainOptList(cval.metadata.tags, " ")) =>
           (cres.ok /\ cres.value.metadata.tags = cval.metadata.tags)

C7_Witness ==
    /\ cpc = "roundtrip"
    /\ cval.metadata.tags = Some(<<>>)
    /\ Len(ChildrenNamed(MetadataOf(cdoc), "tags")) = 1
    /\ cres.ok
    /\ cres.value.metadata.tags = Some(<<>>)

\* element names of the nuspec schema that the documents of the run use
KnownNames == {"id", "authors", "owners", "tags"}

\* C8: a document with an owners element and no authors element is read with the
\* owners' comma-separated value as metadata.authors; a document with both is
\* rejected, as a duplicate field when nothing else is wrong with it; the
\* serializer writes one authors element and no owners element.
C8_OwnersAlias ==
    /\ cpc = "parsed" =>
         LET md == MetadataOf(cdoc)
             owners == ChildrenNamed(md, "owners")
             authors == ChildrenNamed(md, "authors")
             known == \A i \in 1..Len(md.children) : md.children[i].name \in KnownNames
             other == {md.children[i].name : i \in 1..Len(md.children)}
                          \ {"owners", "authors"}
             once == \A n \in other : Len(ChildrenNamed(md, n)) = 1
         IN  /\ (Len(owners) = 1 /\ Len(authors) = 0 /\ known /\ once) =>
                    /\ cres.ok
                    /\ cres.value.metadata.authors = CommaDeserialize(owners[1].text)
             /\ (Len(owners) > 0 /\ Len(authors) > 0) => ~cres.ok
             /\ (Len(owners) > 0 /\ Len(authors) > 0 /\ known) =>
                    cres.err = "duplicate field"
    /\ cpc \in {"serialized", "roundtrip"} =>
         /\ Len(ChildrenNamed(MetadataOf(cdoc), "authors")) = 1
         /\ Len(ChildrenNamed(MetadataOf(cdoc), "owners")) = 0

C8_Witness ==
    /\ cpc = "parsed"
    /\ Len(ChildrenNamed(MetadataOf(cdoc), "owners")) = 1
    /\ Len(ChildrenNamed(MetadataOf(cdoc), "authors")) = 0
    /\ cres.ok
    /\ cres.value.metadata.authors = <<<<"a">>, <<"b">>>>

---------------------------------------------------------------------------
(* The file list: a list that begins with the entries the user declared and *)
(* is offered further entries through push_file, as load_package_config     *)
(* does for the license, the readme and the artifacts.  The callers pass a  *)
(* path built from components or a bare target name, so no src here ends    *)
(* with a separator.                                                         *)

MaxAdded == 3

Tool == <<"t">>

MyTool == <<"m", "t">>

SampleSrcs ==
    {Tool, MyTool, <<"a", "/", "t">>, <<"b", "/", "t">>, <<"a", "/", "m", "t">>,
     <<".", ".", "/", "t">>, DotDot, <<"a", "/", ".", ".">>, <<"t", ".", "x">>}

SampleTargets == {<<>>, <<"l", "i", "b">>}

DeclaredEntries ==
    {[src |-> src, target |-> t, exclude |-> None] :
         src \in {MyTool, <<"a", "/", "t">>, <<"*">>}, t \in {None, Some(<<"c">>)}}

ListInit ==
    /\ CodecIdle
    /\ PathIdle
    /\ GenIdle
    /\ RaceIdle
    /\ declared \in Lists(DeclaredEntries, 1)
    /\ files = declared
    /\ added = <<>>

PushFileCall ==
    /\ Len(added) < MaxAdded
    /\ \E src \in SampleSrcs, target \in SampleTargets :
           /\ files' = PushFile(files, src, target)
           /\ added' = Append(added, src)
    /\ UNCHANGED <<declared, codecVars, pathVars, genVars, raceVars>>

ListNext == PushFileCall

ListSpec == ListInit /\ [][ListNext]_vars

\* the src of every entry the list was given, declared entries first
Offered == [i \in 1..Len(declared) |-> declared[i].src] \o added

Named(srcs, name) == {i \in 1..Len(srcs) : FileName(srcs[i]) = Some(name)}

\* C6: when two or more of the entries offered have the same file name, and one of
\* them came through push_file, the list holds exactly one entry with that file
\* name, and it is the first of them that was offered.
C6_OneEntryPerBasename ==
    \A j \in 1..Len(added) :
        LET name == FileName(added[j])
        IN  (IsSome(name) /\ Cardinality(Named(Offered, Unwrap(name))) >= 2) =>
                LET first == CHOOSE i \in Named(Offered, Unwrap(name)) :
                                 \A k \in Named(Offered, Unwrap(name)) : i <= k
                    held == {i \in 1..Len(files) : FileName(files[i].src) = name}
                IN  /\ Cardinality(held) = 1
                    /\ \A i \in held : files[i].src = Offered[first]


---------------------------------------------------------------------------
(* A call of get_relative_path, one step per loop iteration *)

MaxDepth == 3

Roots == {RootDir, <<"C", ":">>, <<"D", ":">>}

DirNames == {<<"a">>, <<"b">>}

CanonicalPaths ==
    {<<root>> \o rest : root \in Roots, rest \in Lists(DirNames, MaxDepth)}

PathInit ==
    /\ CodecIdle
    /\ ListIdle
    /\ GenIdle
    /\ RaceIdle
    /\ rpc = "called"
    /\ from_dir \in CanonicalPaths
    /\ to_file \in CanonicalPaths
    /\ canon \in [{"from_dir", "to_file"} -> BOOLEAN]
    /\ walk = <<>>
    /\ relative_path = <<>>

\* lines 497-509: canonicalize both, compare the first components
Canonicalize ==
    /\ rpc = "called"
    /\ IF ~canon.to_file \/ ~canon.from_dir
       THEN rpc' = "error" /\ UNCHANGED <<walk, relative_path>>
       ELSE IF Head(from_dir) # Head(to_file)
       THEN /\ rpc' = "done"
            /\ relative_path' = PathString(to_file)
            /\ UNCHANGED walk
       ELSE /\ rpc' = "skipping"
            /\ walk' = Advance(AfterRoot(from_dir, to_file))
            /\ UNCHANGED relative_path
    /\ UNCHANGED <<from_dir, to_file, canon, codecVars, listVars, genVars, raceVars>>

\* lines 510-513: one iteration of the loop that skips the common components
SkipCommon ==
    /\ rpc = "skipping"
    /\ SameComponent(walk)
    /\ walk' = Advance(walk)
    /\ UNCHANGED <<rpc, from_dir, to_file, canon, relative_path, codecVars, listVars, genVars, raceVars>>

\* lines 515-532: the loop has ended, the result is built and returned
Build ==
    /\ rpc = "skipping"
    /\ ~SameComponent(walk)
    /\ relative_path' = BuildRelative(walk)
    /\ rpc' = "done"
    /\ UNCHANGED <<from_dir, to_file, canon, walk, codecVars, listVars, genVars, raceVars>>

PathNext == Canonicalize \/ SkipCommon \/ Build

PathSpec == PathInit /\ [][PathNext]_vars

\* the length of the longest common prefix of two sequences
CommonPrefix(a, b) ==
    CHOOSE k \in 0..Len(a) :
        /\ k <= Len(b)
        /\ SubSeq(a, 1, k) = SubSeq(b, 1, k)
        /\ ~(k < Len(a) /\ k < Len(b) /\ a[k + 1] = b[k + 1])

\* C5: a call that returns gives, when the canonical paths have the same first
\* component, one `..` for each component of the base after the longest common
\* prefix followed by the components of the target after that prefix, and gives
\* the canonical target path when the first components differ.
C5_RelativePath ==
    rpc = "done" =>
        IF Head(from_dir) = Head(to_file)
        THEN LET k == CommonPrefix(from_dir, to_file)
             IN  relative_path =
                     Join([i \in 1..(Len(from_dir) - k) |-> DotDot]
                          \o SubSeq(to_file, k + 1, Len(to_file)), <<Sep>>)
        ELSE relative_path = PathString(to_file)

C5_Witness ==
    /\ rpc = "done"
    /\ from_dir = <<RootDir, <<"a">>, <<"b">>>>
    /\ to_file = <<RootDir, <<"a">>, <<"a">>, <<"b">>>>
    /\ relative_path = <<".", ".", "/", "a", "/", "b">>


\* C24: a call on two existing paths returns a result, also when the target is
\* the base directory itself or one is an ancestor of the other: until it has
\* returned there is a step of the call that changes its state, it does not
\* end in an error, and the result is empty only when the two paths are the same.
C24_ReturnsForExistingPaths ==
    /\ rpc \in {"called", "skipping"} => ENABLED <<PathNext>>_vars
    /\ rpc = "error" => ~(canon.from_dir /\ canon.to_file)
    /\ rpc = "done" /\ relative_path = <<>> => from_dir = to_file

---------------------------------------------------------------------------
(* A run of generate() or generate_to(out_dir) in a build script.  The       *)
(* workspace is /w, the package /w/p (the working directory), the profile    *)
(* directory /w/t/r and OUT_DIR /w/t/r/b/o.                                   *)

ManifestPath == <<"/", "w", "/", "p", "/", "C", "a", "r", "g", "o", ".", "t", "o", "m", "l">>

WorkspaceManifestPath == <<"/", "w", "/", "C", "a", "r", "g", "o", ".", "t", "o", "m", "l">>

ProfileDir == <<"/", "w", "/", "t", "/", "r">>

LicensePath == <<"/", "w", "/", "p", "/", "L">>

ReadmePath == <<"/", "w", "/", "p", "/", "R">>

MissingPath == <<"/", "w", "/", "p", "/", "n", "o">>

CustomDir == <<"/", "w", "/", "c">>

Unset == [CARGO_MANIFEST_PATH |-> None, CARGO_MANIFEST_DIR |-> None, OUT_DIR |-> None,
          PROFILE |-> None, CARGO_PKG_NAME |-> None, CARGO_PKG_VERSION |-> None,
          CARGO_PKG_DESCRIPTION |-> None, CARGO_PKG_AUTHORS |-> None,
          CARGO_PKG_HOMEPAGE |-> None, CARGO_PKG_LICENSE |-> None,
          CARGO_PKG_LICENSE_FILE |-> None, CARGO_PKG_REPOSITORY |-> None,
          CARGO_PKG_README |-> None]

\* the variables a build script always has
BareEnv ==
    [Unset EXCEPT !.CARGO_MANIFEST_PATH = Some(ManifestPath),
                  !.CARGO_MANIFEST_DIR = Some(<<"/", "w", "/", "p">>),
                  !.OUT_DIR = Some(<<"/", "w", "/", "t", "/", "r", "/", "b", "/", "o">>), !.PROFILE = Some(<<"r">>),
                  !.CARGO_PKG_NAME = Some(<<"n", "-", "m">>)]

\* every variable set
FullEnv ==
    [BareEnv EXCEPT !.CARGO_PKG_VERSION = Some(<<"2">>),
                    !.CARGO_PKG_DESCRIPTION = Some(<<"e">>),
                    !.CARGO_PKG_AUTHORS = Some(<<"a", ":", "b">>),
                    !.CARGO_PKG_HOMEPAGE = Some(<<"h">>),
                    !.CARGO_PKG_LICENSE = Some(<<"M", "I", "T">>),
                    !.CARGO_PKG_LICENSE_FILE = Some(LicensePath),
                    !.CARGO_PKG_REPOSITORY = Some(<<"g">>),
                    !.CARGO_PKG_README = Some(ReadmePath)]

Keywords(list) == [kind |-> "keywords", keywords |-> list, workspace |-> FALSE]

Delegated(flag) == [kind |-> "workspace", keywords |-> <<>>, workspace |-> flag]

\* a parsed Cargo.toml
Toml(package, dir, keywords, binary, lib) ==
    [package |-> Some([keywords |-> keywords,
                       metadata |-> Some([nuspec |-> Some([package |-> package,
                                                           out_dir |-> dir])])]),
     binary |-> binary, lib |-> lib, workspace |-> None]

NoPackageToml == [package |-> None, binary |-> None, lib |-> None, workspace |-> None]

WorkspaceToml ==
    [NoPackageToml EXCEPT !.workspace =
         Some([NoPackageToml EXCEPT !.package =
                   Some([keywords |-> Some(Keywords(<<<<"w", "k">>>>)), metadata |-> None])])]

OneBinary == Some(<<[name |-> <<"x", "-", "y">>]>>)

\* the disk of a build whose package manifest parses to `toml`
DiskWith(toml) ==
    [dirs |-> {P(<<"/">>), P(<<"/", "w">>), P(<<"/", "w", "/", "p">>), P(<<"/", "w", "/", "t">>), P(ProfileDir),
               P(<<"/", "w", "/", "t", "/", "r", "/", "b">>), P(<<"/", "w", "/", "t", "/", "r", "/", "b", "/", "o">>)},
     files |-> {P(ManifestPath), P(WorkspaceManifestPath), P(LicensePath),
                P(ReadmePath), P(<<"/", "w", "/", "t", "/", "r", "/", "x", "-", "y">>)},
     toml |-> (P(ManifestPath) :> toml) @@ (P(WorkspaceManifestPath) :> WorkspaceToml),
     content |-> <<>>]

Input(env, platform) == [env |-> env, cwd |-> P(<<"/", "w", "/", "p">>), platform |-> platform]

\* what load_package_config reads at a moment: the input and the disk as it is
Reads(i, d) == [env |-> i.env, cwd |-> i.cwd, platform |-> i.platform, fs |-> d]

Platforms == {"linux", "macos", "windows_msvc", "windows_gnu"}


\* a declared package: its metadata fields
Declared(id, version, description, authors, projectUrl, license, repository, readme, tags) ==
    [DefaultPackage EXCEPT !.metadata =
        [DefaultMetadata EXCEPT !.id = id, !.version = version,
                                !.description = description, !.authors = authors,
                                !.projectUrl = projectUrl, !.license = license,
                                !.repository = repository, !.readme = readme,
                                !.tags = tags]]

\* each field explicitly set or left out
DeclaredSetOrNot ==
    {Declared(id, version, description, authors, projectUrl, license, repository,
              readme, tags) :
        id \in {<<>>, <<"i">>}, version \in {<<>>, <<"1">>},
        description \in {<<>>, <<"d">>}, authors \in {<<>>, <<<<"x">>>>},
        projectUrl \in {None, Some(<<"u">>)},
        license \in {None, Some([type |-> "expression", text |-> <<"E">>])},
        repository \in {None, Some([DefaultRepository EXCEPT !.url = Some(<<"v">>)])},
        readme \in {None, Some(<<"r">>)}, tags \in {None, Some(<<<<"t">>>>)}}

\* one field set to a value that is present but empty, or unusual
DeclaredOddly ==
    {[DefaultPackage EXCEPT !.metadata.projectUrl = Some(<<>>)],
     [DefaultPackage EXCEPT !.metadata.tags = Some(<<>>)],
     [DefaultPackage EXCEPT !.metadata.repository = Some(DefaultRepository)],
     [DefaultPackage EXCEPT !.metadata.license = Some([type |-> "file", text |-> <<"F">>])],
     [DefaultPackage EXCEPT !.metadata.id = <<"M", ".", "P">>]}

\* what the manifest declares against what Cargo provides
PrecedenceRuns ==
    {[entry |-> "generate", arg |-> <<>>, input |-> Input(env, "linux"),
      disk |-> DiskWith(Toml(Some(d), None,
                             IF env = FullEnv THEN Some(Keywords(<<<<"k", "w">>>>)) ELSE None,
                             None, None))] :
        d \in DeclaredSetOrNot \cup DeclaredOddly, env \in {FullEnv, BareEnv}}

EnvStrings(set) == {None, Some(<<>>)} \cup {Some(s) : s \in set}

\* nothing declared: the metadata comes from the environment
EnvRuns ==
    {[entry |-> "generate", arg |-> <<>>,
      input |-> Input([BareEnv EXCEPT !.CARGO_PKG_VERSION = version,
                                      !.CARGO_PKG_DESCRIPTION = version,
                                      !.CARGO_PKG_AUTHORS = authors,
                                      !.CARGO_PKG_HOMEPAGE = url,
                                      !.CARGO_PKG_REPOSITORY = url,
                                      !.CARGO_PKG_LICENSE = license,
                                      !.CARGO_PKG_LICENSE_FILE = license_file,
                                      !.CARGO_PKG_README = readme], "linux"),
      disk |-> DiskWith(Toml(None, None, None, None, None))] :
        version \in {None, Some(<<"2">>)},
        authors \in EnvStrings({<<"a">>, <<"a", ":", " ", "b">>, <<"a", ",", "b">>}),
        url \in EnvStrings({<<"h">>}),
        license \in EnvStrings({<<"M", "I", "T">>}),
        license_file \in EnvStrings({LicensePath, MissingPath}),
        readme \in EnvStrings({ReadmePath, MissingPath})}

DeclaredDirs ==
    {None, Some(<<>>), Some(CustomDir), Some(<<"c">>), Some(ProfileDir),
     Some(LicensePath), Some(<<"/", "w", "/", "p", "/", "L", "/", "d">>)}

\* the output directory: the argument, the manifest's out_dir, the disk
OutDirRuns ==
    {[entry |-> e.entry, arg |-> e.arg, input |-> Input(env, "linux"),
      disk |-> [DiskWith(Toml(Some([DefaultPackage EXCEPT !.metadata.id = id]),
                              dir, None, OneBinary, None))
                   EXCEPT !.dirs = @ \cup made]] :
        e \in {[entry |-> "generate", arg |-> <<>>],
               [entry |-> "generate_to", arg |-> ProfileDir],
               [entry |-> "generate_to", arg |-> CustomDir],
               [entry |-> "generate_to", arg |-> <<"/", "w", "/", "o">>]},
        env \in {FullEnv, BareEnv}, id \in {<<>>, <<"i">>, <<"M", ".", "P">>},
        dir \in DeclaredDirs, made \in {{}, {P(CustomDir)}}}

\* a variable Cargo always sets is missing, or OUT_DIR is not below the profile
BrokenEnvRuns ==
    {[entry |-> "generate", arg |-> <<>>, input |-> Input(env, "linux"),
      disk |-> DiskWith(Toml(None, None, Some(Delegated(TRUE)), OneBinary, None))] :
        env \in {[FullEnv EXCEPT !.CARGO_MANIFEST_PATH = None],
                 [FullEnv EXCEPT !.CARGO_MANIFEST_DIR = None],
                 [FullEnv EXCEPT !.OUT_DIR = None],
                 [FullEnv EXCEPT !.PROFILE = None],
                 [FullEnv EXCEPT !.CARGO_PKG_NAME = None],
                 [FullEnv EXCEPT !.PROFILE = Some(<<"q">>)],
                 [FullEnv EXCEPT !.CARGO_MANIFEST_PATH = Some(MissingPath)],
                 FullEnv}}

\* a declared file entry
Entry(src, target) == [src |-> src, target |-> target, exclude |-> None]

\* the file lists a manifest declares: none, an empty one, an entry elsewhere
\* whose name ends like the license file's, one with the license file's name,
\* one relative to the package directory, an unrelated one
DeclaredFiles ==
    {None, Some(<<>>),
     Some(<<Entry(<<"/", "a", "/", "X", "L">>, Some(<<"d", "o", "c">>))>>),
     Some(<<Entry(<<"/", "a", "/", "L">>, Some(<<"d", "o", "c">>))>>),
     Some(<<Entry(<<"R">>, None)>>),
     Some(<<Entry(<<"/", "a", "/", "k">>, None)>>)}

CdyLib == Some([name |-> None, crate_type |-> Some(<<"cdylib">>)])

\* the file list: declared entries, the license file and the readme of the
\* environment, a binary and a library
FileRuns ==
    {[entry |-> "generate", arg |-> <<>>,
      input |-> Input([BareEnv EXCEPT !.CARGO_PKG_LICENSE_FILE = license_file,
                                      !.CARGO_PKG_README = readme], "linux"),
      disk |-> DiskWith(Toml(Some([DefaultPackage EXCEPT !.files = list]),
                             dir, None, binary, lib))] :
        list \in DeclaredFiles,
        license_file \in {None, Some(LicensePath), Some(<<"L">>)},
        readme \in {None, Some(ReadmePath)},
        binary \in {None, OneBinary}, lib \in {None, CdyLib},
        dir \in {None, Some(CustomDir)}}

\* the crate-type lists of a library block
CrateTypeLists ==
    {None, Some(<<>>)}
      \cup {Some(<<k>>) : k \in {"bin", "lib", "rlib", "dylib", "cdylib", "staticlib",
                                 "proc-macro"}}
      \cup {Some(<<"lib", "rlib">>), Some(<<"cdylib", "dylib">>), Some(<<"bin", "cdylib">>),
            Some(<<"staticlib", "proc-macro">>), Some(<<"rlib", "cdylib", "staticlib">>)}

\* the library blocks: a named library of every crate-type list, and one named
\* after the package
Libraries ==
    {None} \cup {Some([name |-> Some(<<"z">>), crate_type |-> list]) : list \in CrateTypeLists}
           \cup {Some([name |-> None, crate_type |-> Some(<<k>>)]) : k \in {"rlib", "cdylib"}}

\* the binaries of a manifest: none, one, and two of which the second's name
\* ends the first's
BinaryLists == {None, OneBinary, Some(<<[name |-> <<"x", "-", "y">>], [name |-> <<"y">>]>>)}

\* binaries and library on each platform, the binary built or not yet
ArtifactRuns ==
    {[entry |-> "generate", arg |-> <<>>, input |-> Input(BareEnv, platform),
      disk |-> [DiskWith(Toml(None, dir, None, binary, lib))
                   EXCEPT !.files = @ \ unbuilt]] :
        platform \in Platforms, binary \in BinaryLists, lib \in Libraries,
        dir \in {None, Some(CustomDir)}, unbuilt \in {{}, {P(<<"/", "w", "/", "t", "/", "r", "/", "x", "-", "y">>)}}}

\* a manifest at the filesystem root
RootManifestPath == <<"/", "C", "a", "r", "g", "o", ".", "t", "o", "m", "l">>

\* a manifest with a workspace table whose package block has these keywords
WorkspaceWith(keywords) ==
    [NoPackageToml EXCEPT !.workspace =
         Some([NoPackageToml EXCEPT !.package =
                   Some([keywords |-> keywords, metadata |-> None])])]

\* what a manifest above the package can be: a workspace with keywords, with
\* none, with a delegation marker, with no package block, and a manifest
\* that has no workspace table
ManifestsAbovePackage ==
    {WorkspaceToml, WorkspaceWith(None), WorkspaceWith(Some(Delegated(TRUE))),
     [NoPackageToml EXCEPT !.workspace = Some(NoPackageToml)], NoPackageToml}

\* the disk with these manifests (an Option each) in /w and in /
DiskAbove(toml, above, root) ==
    LET d == DiskWith(toml)
        there == {P(ManifestPath)}
                   \cup (IF IsSome(above) THEN {P(WorkspaceManifestPath)} ELSE {})
                   \cup (IF IsSome(root) THEN {P(RootManifestPath)} ELSE {})
    IN  [d EXCEPT !.files = (@ \ {P(WorkspaceManifestPath)}) \cup there,
                  !.toml = [f \in there |->
                               IF f = P(ManifestPath) THEN toml
                               ELSE IF f = P(WorkspaceManifestPath) THEN Unwrap(above)
                               ELSE Unwrap(root)]]

\* the keywords of the package against the manifests above it
TagRuns ==
    {[entry |-> "generate", arg |-> <<>>, input |-> Input(BareEnv, "linux"),
      disk |-> DiskAbove(Toml(package, None, keywords, None, None), above, root)] :
        package \in {None, Some([DefaultPackage EXCEPT !.metadata.tags = Some(<<<<"t">>>>)])},
        keywords \in {None, Some(Keywords(<<>>)), Some(Keywords(<<<<"k">>, <<"l">>>>)),
                      Some(Delegated(TRUE)), Some(Delegated(FALSE))},
        above \in {None} \cup {Some(m) : m \in ManifestsAbovePackage},
        root \in {None, Some(WorkspaceWith(Some(Keywords(<<<<"r", "k">>>>))))}}

MaxOutDirDepth == 3

\* OUT_DIR anywhere below the root, among directories named like the profile
\* or not
ProfileRuns ==
    {[entry |-> "generate", arg |-> <<>>,
      input |-> Input([BareEnv EXCEPT !.OUT_DIR = Some(PathString(<<RootDir>> \o names)),
                                      !.PROFILE = Some(profile)], "linux"),
      disk |-> DiskWith(Toml(None, None, None, None, None))] :
        names \in Lists({<<"r">>, <<"b">>, <<"q">>}, MaxOutDirDepth) \ {<<>>},
        profile \in {<<"r">>, <<"q">>}}

\* one variable is unset, by either entry, with an id declared or not
\* CARGO_MANIFEST_DIR is unset and no manifest lies above the package
NoWorkspaceRuns ==
    {[entry |-> "generate", arg |-> <<>>,
      input |-> Input([BareEnv EXCEPT !.CARGO_MANIFEST_DIR = dir], "linux"),
      disk |-> DiskAbove(Toml(package, None, keywords, None, None), None, None)] :
        dir \in {None, Some(<<"/", "w", "/", "p">>)},
        package \in {None, Some([DefaultPackage EXCEPT !.metadata.tags = Some(<<<<"t">>>>)])},
        keywords \in {Some(Keywords(<<<<"k">>>>)), Some(Delegated(TRUE)), Some(Delegated(FALSE))}}

MissingEnvRuns ==
    {[entry |-> e.entry, arg |-> e.arg, input |-> Input(env, "linux"),
      disk |-> DiskWith(Toml(package, None, None, None, None))] :
        e \in {[entry |-> "generate", arg |-> <<>>],
               [entry |-> "generate_to", arg |-> CustomDir]},
        env \in {[FullEnv EXCEPT ![v] = None] : v \in DOMAIN FullEnv},
        package \in {None, Some([DefaultPackage EXCEPT !.metadata.id = <<"i">>])}}

\* declared entries with target and exclude, relative and absolute, and a
\* pattern that names no file
DeclaredRuns ==
    {[entry |-> "generate", arg |-> <<>>, input |-> Input(BareEnv, "linux"),
      disk |-> DiskWith(Toml(Some([DefaultPackage EXCEPT !.files = Some(list)]),
                             dir, None, None, None))] :
        list \in {<<[src |-> <<"R">>, target |-> Some(<<"d">>), exclude |-> Some(<<"x">>)],
                    Entry(<<"/", "a", "/", "k">>, None)>>,
                  <<Entry(<<"/", "a", "/", "k">>, Some(<<"d">>)), Entry(<<".", "/", "L">>, None)>>,
                  <<Entry(<<"R">>, None), Entry(<<"*", ".", "d">>, Some(<<"l", "i", "b">>))>>},
        dir \in {None, Some(CustomDir)}}

\* the output file of an earlier run
PreviousOutput == <<"/", "w", "/", "t", "/", "r", "/", "n", "-", "m", ".", "n", "u", "s", "p", "e", "c">>

\* a run over the output of an earlier one, succeeding or failing somewhere
PreviousRuns ==
    {[entry |-> "generate", arg |-> <<>>, input |-> Input(env, "linux"),
      disk |-> [DiskWith(Toml(None, None, keywords, None, None))
                   EXCEPT !.files = (@ \cup {P(PreviousOutput)}) \ missing,
                          !.content = (P(PreviousOutput) :> <<"old">>)]] :
        env \in {BareEnv,
                 [BareEnv EXCEPT !.CARGO_PKG_README = Some(MissingPath)],
                 [BareEnv EXCEPT !.CARGO_PKG_LICENSE_FILE = Some(MissingPath)],
                 [BareEnv EXCEPT !.CARGO_PKG_NAME = None],
                 [BareEnv EXCEPT !.CARGO_MANIFEST_PATH = Some(MissingPath)]},
        keywords \in {None, Some(Delegated(TRUE))},
        missing \in {{}, {P(WorkspaceManifestPath)}}}

Runs == PrecedenceRuns \cup EnvRuns \cup OutDirRuns \cup BrokenEnvRuns \cup FileRuns
          \cup ArtifactRuns \cup TagRuns \cup ProfileRuns
          \cup MissingEnvRuns \cup NoWorkspaceRuns \cup DeclaredRuns \cup PreviousRuns

Init ==
    /\ CodecIdle
    /\ ListIdle
    /\ PathIdle
    /\ RaceIdle
    /\ \E run \in Runs :
          /\ gpc = run.entry
          /\ inp = run.input
          /\ arg_out_dir = run.arg
          /\ disk = run.disk
    /\ loaded = <<>>
    /\ file_name = <<>>
    /\ serialized = <<>>

\* generate, line 17
Generate ==
    /\ gpc = "generate"
    /\ LET found == GetBuildArtifactsPath(inp.env)
       IN  IF found.ok
           THEN gpc' = "generate_to" /\ arg_out_dir' = found.value
           ELSE gpc' = "err" /\ UNCHANGED arg_out_dir
    /\ UNCHANGED <<inp, disk, loaded, file_name, serialized, codecVars, listVars, pathVars, raceVars>>

\* one stage of load_package_config, called from line 23: the stage's result
\* is kept, what it did to the filesystem is done, and an error or a call
\* that does not return ends the run
Stage(at, then, result) ==
    /\ gpc = at
    /\ \E c \in {result} :
          /\ loaded' = c
          /\ disk' = c.fs
          /\ gpc' = IF c.status = "run" THEN then ELSE c.status
    /\ UNCHANGED <<inp, arg_out_dir, file_name, serialized, codecVars, listVars, pathVars, raceVars>>

\* lines 104-107
LoadManifest ==
    Stage("generate_to", "out_dir", ReadManifest(Reads(inp, disk), arg_out_dir))

\* lines 108-130
LoadOutDir == Stage("out_dir", "declared", ResolveOutDir(Reads(inp, disk), loaded))

\* lines 131-138
LoadDeclared == Stage("declared", "identity", DeclaredPackage(Reads(inp, disk), loaded))

\* lines 140-168
LoadIdentity == Stage("identity", "license", Identity(Reads(inp, disk), loaded))

\* lines 169-199
LoadLicense == Stage("license", "tags", ResolveLicense(Reads(inp, disk), loaded))

\* lines 201-233
LoadTags == Stage("tags", "repository", ResolveTags(Reads(inp, disk), loaded))

\* lines 235-249
LoadRepository ==
    Stage("repository", "readme", ResolveRepository(Reads(inp, disk), loaded))

\* lines 250-266
LoadReadme == Stage("readme", "binaries", ResolveReadme(Reads(inp, disk), loaded))

\* lines 268-308
LoadBinaries == Stage("binaries", "library", Binaries(Reads(inp, disk), loaded))

\* lines 309-444
LoadLibrary == Stage("library", "finish", Library(Reads(inp, disk), loaded))

\* lines 446-452 and 24-27: the package is returned, the file name built and
\* the package serialized
Load ==
    /\ gpc = "finish"
    /\ \E c \in {Finish(loaded)} :
          /\ loaded' = c
          /\ file_name' = OutputFileName(arg_out_dir, c)
          /\ serialized' = SerPackage(c.pkg)
    /\ gpc' = "create"
    /\ UNCHANGED <<inp, arg_out_dir, disk, codecVars, listVars, pathVars, raceVars>>

\* the canonical path of the file generate_to has open
Written == Locate(disk, inp.cwd, file_name, FALSE).path

\* File::write_all on the open file
WriteAll(bytes) == [disk EXCEPT !.content[Written] = Append(@, bytes)]

\* line 28: File::create makes the file, or empties the one there
Create ==
    /\ gpc = "create"
    /\ LET at == Locate(disk, inp.cwd, file_name, TRUE)
       IN  IF at.ok /\ at.path \notin disk.dirs
           THEN /\ gpc' = "prolog"
                /\ disk' = [disk EXCEPT !.files = @ \cup {at.path},
                                        !.content = (at.path :> <<>>) @@ @]
           ELSE gpc' = "err" /\ UNCHANGED disk
    /\ UNCHANGED <<inp, arg_out_dir, loaded, file_name, serialized,
                   codecVars, listVars, pathVars, raceVars>>

\* line 29
WriteProlog ==
    /\ gpc = "prolog"
    /\ gpc' = "newline"
    /\ disk' = WriteAll(Prolog)
    /\ UNCHANGED <<inp, arg_out_dir, loaded, file_name, serialized,
                   codecVars, listVars, pathVars, raceVars>>

\* line 30
WriteNewline ==
    /\ gpc = "newline"
    /\ gpc' = "body"
    /\ disk' = WriteAll("\n")
    /\ UNCHANGED <<inp, arg_out_dir, loaded, file_name, serialized,
                   codecVars, listVars, pathVars, raceVars>>

\* lines 31-33
WriteBody ==
    /\ gpc = "body"
    /\ gpc' = "ok"
    /\ disk' = WriteAll(serialized)
    /\ UNCHANGED <<inp, arg_out_dir, loaded, file_name, serialized,
                   codecVars, listVars, pathVars, raceVars>>

Next ==
    \/ Generate
    \/ LoadManifest \/ LoadOutDir \/ LoadDeclared \/ LoadIdentity \/ LoadLicense
    \/ LoadTags \/ LoadRepository \/ LoadReadme \/ LoadBinaries \/ LoadLibrary \/ Load
    \/ Create \/ WriteProlog \/ WriteNewline \/ WriteBody

Spec == Init /\ [][Next]_vars

---------------------------------------------------------------------------
(* Claims about a run of generate / generate_to.                             *)

\* load_package_config has returned a package
Returned == gpc \in {"create", "prolog", "newline", "body", "ok"}

\* File::create has succeeded
Created == gpc \in {"prolog", "newline", "body", "ok"}

\* the [package.metadata.nuspec] table of the package manifest
Config == NuspecConfig(disk.toml[P(ManifestPath)])

\* the metadata the manifest declares
DeclaredMetadata ==
    (IF IsNone(Config.package) THEN DefaultPackage ELSE Unwrap(Config.package)).metadata

\* C2: every package load_package_config returns, the one resolved with
\* CARGO_PKG_AUTHORS absent or empty included, is read back from its
\* serialized form as an equal package.
C2_ResolvedRoundTrip ==
    Returned => /\ DePackage(serialized).ok
                /\ DePackage(serialized).value = loaded.pkg

\* C3: a metadata field the manifest sets explicitly is the resolved value,
\* whatever the environment or the manifest keywords would have provided.
C3_DeclaredWins ==
    Returned =>
        LET d == DeclaredMetadata
            m == loaded.pkg.metadata
        IN  /\ Len(d.id) > 0 => m.id = d.id
            /\ Len(d.version) > 0 => m.version = d.version
            /\ Len(d.description) > 0 => m.description = d.description
            /\ Len(d.authors) > 0 => m.authors = d.authors
            /\ IsSome(d.projectUrl) => m.projectUrl = d.projectUrl
            /\ IsSome(d.license) => m.license = d.license
            /\ IsSome(d.repository) => m.repository = d.repository
            /\ IsSome(d.readme) => m.readme = d.readme
            /\ IsSome(d.tags) => m.tags = d.tags

\* every field is declared, the environment sets every variable to something
\* else and the manifest has keywords; the run has ended with the declared values
C3_Witness ==
    /\ gpc = "ok"
    /\ inp.env = FullEnv
    /\ IsSome(Unwrap(disk.toml[P(ManifestPath)].package).keywords)
    /\ DeclaredMetadata =
           Declared(<<"i">>, <<"1">>, <<"d">>, <<<<"x">>>>, Some(<<"u">>),
                    Some([type |-> "expression", text |-> <<"E">>]),
                    Some([DefaultRepository EXCEPT !.url = Some(<<"v">>)]),
                    Some(<<"r">>), Some(<<<<"t">>>>)).metadata
    /\ loaded.pkg.metadata = DeclaredMetadata

\* C9: when the manifest declares a non-empty out_dir, the file is written in
\* that directory.
C9_WrittenInDeclaredDir ==
    (Created /\ IsSome(Config.out_dir) /\ Len(Unwrap(Config.out_dir)) > 0) =>
        SubSeq(Written, 1, Len(Written) - 1)
            = Canon(disk, inp.cwd, Unwrap(Config.out_dir)).path

\* C10: the file written is named by the resolved id followed by `.nuspec`.
C10_NamedByResolvedId ==
    Created =>
        FileName(file_name)
            = Some(loaded.pkg.metadata.id \o <<".", "n", "u", "s", "p", "e", "c">>)


\* the stage of lines 108-130 is behind the run
PastOutDir ==
    gpc \in {"declared", "identity", "license", "tags", "repository", "readme",
             "binaries", "library", "finish"} \/ Returned

\* the directory the spec designates: the manifest's out_dir, else the argument
DesignatedDir ==
    IF IsSome(Config.out_dir) /\ Unwrap(Config.out_dir) # <<>>
    THEN Unwrap(Config.out_dir)
    ELSE arg_out_dir

\* C11: the declared non-empty out_dir, else the caller's directory, is the
\* output directory; once chosen it is a directory on the disk (made when it
\* was missing); and the run fails with the output error, nothing written,
\* exactly when a file stands at the chosen path or on the way to it.
C11_OutputDirectory ==
    /\ PastOutDir =>
          /\ loaded.out_dir = DesignatedDir
          /\ IsDir(disk, inp.cwd, DesignatedDir)
    /\ (gpc = "err" /\ loaded # <<>> /\ loaded.err = "OutputError") =>
          /\ Prefixes(Lexical(inp.cwd, DesignatedDir)) \cap disk.files # {}
          /\ disk.content = <<>>

\* the manifest's out_dir is the empty string and the caller's directory was
\* missing: it has been made and chosen
C11_Witness ==
    /\ gpc = "declared"
    /\ Config.out_dir = Some(<<>>)
    /\ arg_out_dir = <<"/", "w", "/", "o">>
    /\ loaded.out_dir = arg_out_dir
    /\ P(arg_out_dir) \in disk.dirs


\* the license expression of the environment, when it is set and not empty
EnvLicense ==
    IF IsSome(inp.env.CARGO_PKG_LICENSE) /\ Unwrap(inp.env.CARGO_PKG_LICENSE) # <<>>
    THEN inp.env.CARGO_PKG_LICENSE
    ELSE None

\* C12: with no declared license and a non-empty license expression in the
\* environment, the license stage leaves Expression(that string) and the file
\* list as it was, whatever the environment's license-file path is.
C12_LicenseExpression ==
    [][(gpc = "license" /\ IsNone(DeclaredMetadata.license) /\ IsSome(EnvLicense)) =>
          /\ gpc' = "tags"
          /\ loaded'.pkg.metadata.license =
                 Some([type |-> "expression", text |-> Unwrap(EnvLicense)])
          /\ loaded'.files = loaded.files]_vars

\* expression and license file are both set; the expression was taken and
\* no entry added
C12_Witness ==
    /\ gpc = "tags"
    /\ IsNone(DeclaredMetadata.license)
    /\ inp.env.CARGO_PKG_LICENSE = Some(<<"M", "I", "T">>)
    /\ inp.env.CARGO_PKG_LICENSE_FILE = Some(LicensePath)
    /\ loaded.pkg.metadata.license = Some([type |-> "expression", text |-> <<"M", "I", "T">>])
    /\ loaded.files = <<>>


\* the license-file path of the environment, when it is set and not empty
EnvLicenseFile ==
    IF IsSome(inp.env.CARGO_PKG_LICENSE_FILE)
          /\ Unwrap(inp.env.CARGO_PKG_LICENSE_FILE) # <<>>
    THEN inp.env.CARGO_PKG_LICENSE_FILE
    ELSE None

\* C13: with no declared license, no license expression and an existing
\* license file named by the environment, the license stage leaves
\* File(basename) and appends exactly one entry to the file list, its src the
\* path from out_dir and its target the basename at the package root,
\* whatever file list the manifest declared.
C13_LicenseFile ==
    [][(/\ gpc = "license"
        /\ IsNone(DeclaredMetadata.license)
        /\ IsNone(EnvLicense)
        /\ IsSome(EnvLicenseFile)
        /\ Exists(disk, inp.cwd, Unwrap(EnvLicenseFile))) =>
          LET name == Unwrap(FileName(Unwrap(EnvLicenseFile)))
              src == GetRelativePath(disk, inp.cwd, loaded.out_dir,
                                     Unwrap(EnvLicenseFile)).path
          IN  /\ gpc' = "tags"
              /\ loaded'.pkg.metadata.license = Some([type |-> "file", text |-> name])
              /\ loaded'.files = Append(loaded.files, Entry(src, Some(name)))]_vars


\* the file list the manifest declares, if it declares one
DeclaredFileList ==
    (IF IsNone(Config.package) THEN DefaultPackage ELSE Unwrap(Config.package)).files

\* C14: when the manifest declares a file list, the binaries and the library
\* block add no entry to it.
C14_NoSynthesisOverDeclared ==
    [][(gpc \in {"binaries", "library"} /\ IsSome(DeclaredFileList)) =>
          loaded'.files = loaded.files]_vars


\* the package manifest
PackageManifest == disk.toml[P(ManifestPath)]

OnWindows == inp.platform \in {"windows_msvc", "windows_gnu"}

\* folder and file name of what an executable leaves, its debug file named `pdb`
ExecutableFiles(name, pdb) ==
    IF OnWindows
    THEN {<<<<"t", "o", "o", "l", "s">>, name \o <<".", "e", "x", "e">>>>, <<<<"t", "o", "o", "l", "s">>, pdb \o <<".", "p", "d", "b">>>>}
    ELSE {<<<<"t", "o", "o", "l", "s">>, name>>}

\* folder and file name of what a library of one crate type leaves
KindFiles(name, kind) ==
    CASE kind = "bin" -> ExecutableFiles(name, name)
      [] kind = "rlib" -> {<<<<"l", "i", "b">>, <<"l", "i", "b">> \o name \o <<".", "r", "l", "i", "b">>>>}
      [] kind \in {"dylib", "cdylib"} ->
           IF OnWindows
           THEN {<<<<"l", "i", "b">>, name \o <<".", "d", "l", "l">>>>, <<<<"l", "i", "b">>, name \o <<".", "p", "d", "b">>>>}
           ELSE IF inp.platform = "macos"
           THEN {<<<<"l", "i", "b">>, <<"l", "i", "b">> \o name \o <<".", "d", "y", "l", "i", "b">>>>}
           ELSE {<<<<"l", "i", "b">>, <<"l", "i", "b">> \o name \o <<".", "s", "o">>>>}
      [] kind = "staticlib" ->
           IF inp.platform = "windows_msvc"
           THEN {<<<<"l", "i", "b">>, name \o <<".", "l", "i", "b">>>>}
           ELSE {<<<<"l", "i", "b">>, <<"l", "i", "b">> \o name \o <<".", "a">>>>}
      [] OTHER -> {}

DeclaredBinaries ==
    IF IsNone(PackageManifest.binary) THEN <<>> ELSE Unwrap(PackageManifest.binary)

\* the name of the library: its declared name, else the package's with `_` for `-`
LibraryName ==
    IF IsSome(Unwrap(PackageManifest.lib).name) THEN Unwrap(Unwrap(PackageManifest.lib).name)
    ELSE Underscored(Unwrap(inp.env.CARGO_PKG_NAME))

LibraryKinds ==
    IF IsNone(PackageManifest.lib) \/ IsNone(Unwrap(PackageManifest.lib).crate_type)
    THEN <<>>
    ELSE Unwrap(Unwrap(PackageManifest.lib).crate_type)

LibraryFiles ==
    UNION {KindFiles(LibraryName, LibraryKinds[i]) : i \in 1..Len(LibraryKinds)}

\* the entry of folder/file: its src is named `file`, its target is folder/file
IsEntryOf(e, x) ==
    /\ FileName(e.src) = Some(x[2])
    /\ e.target = Some(x[1] \o <<"/">> \o x[2])

\* a step appends to the file list entries of the expected files only, one for
\* each; when not `strict`, an expected file may instead be left out because
\* the src of another entry of the list ends with its name
Yields(expected, strict) ==
    LET old == loaded.files
        new == loaded'.files
        news == (Len(old) + 1)..Len(new)
    IN  /\ Len(new) >= Len(old)
        /\ SubSeq(new, 1, Len(old)) = old
        /\ \A i \in news : \E x \in expected : IsEntryOf(new[i], x)
        /\ \A i, j \in news : new[i].src = new[j].src => i = j
        /\ \A x \in expected :
              \/ \E i \in news : IsEntryOf(new[i], x)
              \/ /\ ~strict
                 /\ \E i \in 1..Len(new) : /\ ~IsEntryOf(new[i], x)
                                           /\ EndsWith(new[i].src, x[2])

\* C15 (as amended): a binary leaves tools/name, on Windows tools/name.exe
\* and tools/name_with_underscores.pdb; a library leaves, per crate type,
\* lib/lib{name}.rlib, lib/lib{name}.so or .dylib or name.dll with name.pdb,
\* lib/name.lib or lib{name}.a, tools/name[.exe, .pdb] for `bin`; each entry's
\* target is folder/basename-of-src, and a file is left out only when the src
\* of an entry already listed ends with its name.
C15_ArtifactMapping ==
    [][/\ gpc = "binaries" =>
             /\ gpc' = "library"
             /\ Yields(UNION {ExecutableFiles(DeclaredBinaries[i].name,
                                              Underscored(DeclaredBinaries[i].name)) :
                                 i \in 1..Len(DeclaredBinaries)}, FALSE)
       /\ gpc = "library" =>
             /\ gpc' = "finish"
             /\ Yields(IF IsNone(PackageManifest.lib) THEN {} ELSE LibraryFiles, FALSE)]_vars

\* C15 (as stated): the debug file of a binary is name.pdb and every kind
\* leaves every one of its files.
C15_LiteralMapping ==
    [][/\ gpc = "binaries" =>
             /\ gpc' = "library"
             /\ Yields(UNION {ExecutableFiles(DeclaredBinaries[i].name,
                                              DeclaredBinaries[i].name) :
                                 i \in 1..Len(DeclaredBinaries)}, TRUE)
       /\ gpc = "library" =>
             /\ gpc' = "finish"
             /\ Yields(IF IsNone(PackageManifest.lib) THEN {} ELSE LibraryFiles, TRUE)]_vars

\* one binary x-y built at /w/t/r/x-y, with out_dir /w/c: exactly one entry,
\* src ../t/r/x-y and target tools/x-y
C15_Witness ==
    /\ gpc = "library"
    /\ inp.platform = "linux"
    /\ PackageManifest.binary = OneBinary
    /\ loaded.out_dir = CustomDir
    /\ loaded.files = <<Entry(<<".", ".", "/", "t", "/", "r", "/", "x", "-", "y">>, Some(<<"t", "o", "o", "l", "s", "/", "x", "-", "y">>))>>


Unsupported(kind) == kind \in {"lib", "proc-macro"}

\* the warnings of the library block, in order: one for an absent or empty
\* crate-type list, one for each `lib` and `proc-macro` of the list
AdvisoryWarnings ==
    IF IsNone(PackageManifest.lib) THEN <<>>
    ELSE (IF LibraryKinds = <<>> THEN <<"no crate-type">> ELSE <<>>)
           \o SelectSeq(LibraryKinds, Unsupported)

\* C16: a crate type `lib` or `proc-macro`, an absent crate-type list and an
\* empty one each emit a warning and nothing else: the library block never
\* fails, it adds an entry for no file but those of the supported kinds of
\* the list, and those still get their entries.
C16_AdvisoryWarnings ==
    [][gpc = "library" =>
          /\ gpc' = "finish"
          /\ loaded'.warnings = loaded.warnings \o AdvisoryWarnings
          /\ \A i \in (Len(loaded.files) + 1)..Len(loaded'.files) :
                \E x \in LibraryFiles : IsEntryOf(loaded'.files[i], x)
          /\ AdvisoryWarnings # <<>> =>
                \A x \in LibraryFiles :
                   \E i \in (Len(loaded.files) + 1)..Len(loaded'.files) :
                      IsEntryOf(loaded'.files[i], x)]_vars

\* a library of crate types [lib, rlib]: one warning, one entry
C16_Witness ==
    /\ gpc = "finish"
    /\ LibraryKinds = <<"lib", "rlib">>
    /\ loaded.warnings = <<"lib">>
    /\ Len(loaded.files) = 1
    /\ IsEntryOf(loaded.files[1], <<<<"l", "i", "b">>, <<"l", "i", "b", "z", ".", "r", "l", "i", "b">>>>)


\* the path from out_dir to the artifact `base` of the build cannot be resolved
Unresolved(base) ==
    GetRelativePath(disk, inp.cwd, loaded.out_dir,
                    JoinPath(loaded.build_artifacts_path, base)).status = "err"

\* base name and file name of every artifact of the declared binaries
BinaryArtifacts ==
    UNION {LET name == DeclaredBinaries[i].name
           IN  IF OnWindows
               THEN {<<name, name \o <<".", "e", "x", "e">>>>,
                     <<Underscored(name), Underscored(name) \o <<".", "p", "d", "b">>>>}
               ELSE {<<name, name>>} : i \in 1..Len(DeclaredBinaries)}

\* base name and file name of every artifact of the library
LibraryArtifacts ==
    IF IsNone(PackageManifest.lib) THEN {}
    ELSE {<<LibraryName, x[2]>> : x \in LibraryFiles}

\* the entries a step appends for the unresolved artifacts have the bare
\* file name as src; one is there for each, unless the src of another entry
\* ends with that name
BareFallback(artifacts) ==
    LET new == loaded'.files
        news == (Len(loaded.files) + 1)..Len(new)
    IN  \A a \in artifacts :
           Unresolved(a[1]) =>
              /\ \A i \in news : FileName(new[i].src) = Some(a[2]) => new[i].src = a[2]
              /\ \/ \E i \in news : new[i].src = a[2]
                 \/ \E i \in 1..Len(new) : /\ new[i].src # a[2]
                                           /\ EndsWith(new[i].src, a[2])

\* the environment names, for a value the manifest leaves out, a path that
\* does not exist
MissingLicenseFile ==
    /\ IsNone(loaded.pkg.metadata.license)
    /\ IsNone(EnvLicense)
    /\ IsSome(EnvLicenseFile)
    /\ ~Canon(disk, inp.cwd, Unwrap(EnvLicenseFile)).ok

MissingReadme ==
    /\ IsNone(loaded.pkg.metadata.readme)
    /\ IsSome(NonEmpty(inp.env.CARGO_PKG_README))
    /\ ~Canon(disk, inp.cwd, Unwrap(inp.env.CARGO_PKG_README)).ok

\* C17: when the path from out_dir to a binary or library artifact cannot be
\* resolved, the step does not fail and the entry's src is the bare file name
\* derived from the declared name; a license-file or readme path of the
\* environment that does not exist makes resolution fail.
C17_BestEffortArtifacts ==
    [][/\ gpc = "binaries" => gpc' = "library" /\ BareFallback(BinaryArtifacts)
       /\ gpc = "library" => gpc' = "finish" /\ BareFallback(LibraryArtifacts)
       /\ gpc = "license" /\ MissingLicenseFile =>
             gpc' = "err" /\ loaded'.err = "PathError"
       /\ gpc = "readme" /\ MissingReadme =>
             gpc' = "err" /\ loaded'.err = "PathError"]_vars

\* the binary x-y is not built: its entry has src x-y
C17_Witness ==
    /\ gpc = "library"
    /\ inp.platform = "linux"
    /\ PackageManifest.binary = OneBinary
    /\ ~Exists(disk, inp.cwd, <<"/", "w", "/", "t", "/", "r", "/", "x", "-", "y">>)
    /\ loaded.files = <<Entry(<<"x", "-", "y">>, Some(<<"t", "o", "o", "l", "s", "/", "x", "-", "y">>))>>

\* the keywords field of the manifest's package block
PackageKeywords ==
    IF IsNone(PackageManifest.package) THEN None
    ELSE Unwrap(PackageManifest.package).keywords

OnDisk(file) == file \in disk.files

\* the manifests in the directories above the package's, the nearest first
ManifestsAbove == SelectSeq(<<P(WorkspaceManifestPath), P(RootManifestPath)>>, OnDisk)

\* the keyword list of a workspace document: none when it has no workspace
\* table, no package block, no keywords, or a delegation marker for keywords
ListedKeywords(doc) ==
    IF IsNone(doc.workspace) THEN None
    ELSE IF IsNone(Unwrap(doc.workspace).package) THEN None
    ELSE IF IsNone(Unwrap(Unwrap(doc.workspace).package).keywords) THEN None
    ELSE IF Unwrap(Unwrap(Unwrap(doc.workspace).package).keywords).kind # "keywords" THEN None
    ELSE Some(Unwrap(Unwrap(Unwrap(doc.workspace).package).keywords).keywords)

Delegating ==
    /\ IsSome(PackageKeywords)
    /\ Unwrap(PackageKeywords).kind = "workspace"
    /\ Unwrap(PackageKeywords).workspace

\* C18: declared tags stay; absent tags become the package's keyword list when
\* it has one, stay absent with no keywords field, and with a delegation
\* marker become the keyword list of the workspace document above the
\* package, absent when that has no keywords or a delegation marker again.
C18_TagDerivation ==
    [][gpc = "tags" =>
          IF IsSome(loaded.pkg.metadata.tags)
          THEN gpc' = "repository" /\ loaded'.pkg.metadata.tags = loaded.pkg.metadata.tags
          ELSE IF IsNone(PackageKeywords)
          THEN gpc' = "repository" /\ IsNone(loaded'.pkg.metadata.tags)
          ELSE IF Unwrap(PackageKeywords).kind = "keywords"
          THEN /\ gpc' = "repository"
               /\ loaded'.pkg.metadata.tags = Some(Unwrap(PackageKeywords).keywords)
          ELSE IF ~Delegating
          THEN gpc' = "repository" /\ IsNone(loaded'.pkg.metadata.tags)
          ELSE IsSome(inp.env.CARGO_MANIFEST_DIR) /\ ManifestsAbove # <<>> =>
                  /\ gpc' = "repository"
                  /\ loaded'.pkg.metadata.tags = ListedKeywords(disk.toml[Head(ManifestsAbove)])]_vars

\* the package delegates its keywords and the workspace lists wk: tags are [wk]
C18_Witness ==
    /\ gpc = "repository"
    /\ IsNone(DeclaredMetadata.tags)
    /\ Delegating
    /\ OnDisk(P(WorkspaceManifestPath))
    /\ disk.toml[P(WorkspaceManifestPath)] = WorkspaceToml
    /\ loaded.pkg.metadata.tags = Some(<<<<"w", "k">>>>)


HasWorkspaceBlock(file) == IsSome(disk.toml[file].workspace)

\* the manifests above the package that have a workspace table, the nearest first
WorkspacesAbove == SelectSeq(ManifestsAbove, HasWorkspaceBlock)

\* C19: the workspace lookup of a delegating package finds the nearest
\* manifest above the package's directory that has a workspace table, passing
\* over the manifests that have none, and fails with the not-found error
\* exactly when there is no such manifest.
C19_NearestWorkspaceBlock ==
    [][gpc = "tags" /\ IsNone(loaded.pkg.metadata.tags) /\ Delegating
          /\ IsSome(inp.env.CARGO_MANIFEST_DIR) =>
          IF WorkspacesAbove = <<>>
          THEN gpc' = "err" /\ loaded'.err = "No workspace manifest found"
          ELSE /\ gpc' = "repository"
               /\ loaded'.pkg.metadata.tags = ListedKeywords(disk.toml[Head(WorkspacesAbove)])]_vars


OutDirComponents == Components(Unwrap(inp.env.OUT_DIR))

\* how many components the ancestors of OUT_DIR named PROFILE have, OUT_DIR
\* itself counted when `self`
NamedProfile(self) ==
    {n \in 1..(Len(OutDirComponents) - (IF self THEN 0 ELSE 1)) :
        OutDirComponents[n] = Unwrap(inp.env.PROFILE)}

Deepest(set) == CHOOSE n \in set : \A m \in set : m <= n

\* get_build_artifacts_path gives the nearest directory named PROFILE, and
\* the not-found error when there is none
FindsNearest(self) ==
    /\ gpc = "generate" /\ IsSome(inp.env.OUT_DIR) /\ IsSome(inp.env.PROFILE) =>
          IF NamedProfile(self) = {} THEN gpc' = "err"
          ELSE /\ gpc' = "generate_to"
               /\ P(arg_out_dir') = SubSeq(OutDirComponents, 1, Deepest(NamedProfile(self)))
    /\ gpc = "generate_to" /\ IsSome(inp.env.OUT_DIR) /\ IsSome(inp.env.PROFILE) =>
          IF NamedProfile(self) = {}
          THEN gpc' = "err" /\ loaded'.err \in {"MissingEnvironment", "manifest",
                                                "No output directory found"}
          ELSE gpc' = "out_dir" =>
                  P(loaded'.build_artifacts_path)
                     = SubSeq(OutDirComponents, 1, Deepest(NamedProfile(self)))

\* every step to a parent leaves fewer components: the walk ends at the root
WalkShortens ==
    IsSome(inp.env.OUT_DIR) =>
       \A n \in 1..Len(OutDirComponents) :
          LET dir == PathString(SubSeq(OutDirComponents, 1, n))
          IN  IF n = 1 THEN IsNone(Parent(dir))
              ELSE /\ IsSome(Parent(dir))
                   /\ P(Unwrap(Parent(dir))) = SubSeq(OutDirComponents, 1, n - 1)

\* C20 (as amended): get_build_artifacts_path returns the nearest directory
\* named PROFILE among the directories above OUT_DIR, OUT_DIR itself not being
\* one of them, fails with the not-found error when none of them is, and its
\* walk ends: each step goes to a parent with one component less.
C20_NearestProfileAbove == [][FindsNearest(FALSE) /\ WalkShortens]_vars

\* C20 (as stated): the walk starts from OUT_DIR, which is returned when its
\* own name equals PROFILE.
C20_NearestProfileFromOutDir == [][FindsNearest(TRUE) /\ WalkShortens]_vars

\* OUT_DIR = /r/q/r with PROFILE = r: the directory found is /r
C20_Witness ==
    /\ gpc = "generate_to"
    /\ inp.env.OUT_DIR = Some(<<"/", "r", "/", "q", "/", "r">>)
    /\ inp.env.PROFILE = Some(<<"r">>)
    /\ arg_out_dir = <<"/", "r">>


\* one of the variables get_build_artifacts_path reads is unset
NoArtifactsEnv == IsNone(inp.env.OUT_DIR) \/ IsNone(inp.env.PROFILE)

\* what the identity stage leaves in the fields the manifest does not declare
\* and whose variable is unset; the authors are `none`
UnsetLeavesEmpty(none) ==
    LET old == loaded.pkg.metadata
        new == loaded'.pkg.metadata
    IN  /\ old.version = <<>> /\ IsNone(inp.env.CARGO_PKG_VERSION) => new.version = <<>>
        /\ old.description = <<>> /\ IsNone(inp.env.CARGO_PKG_DESCRIPTION) =>
              new.description = <<>>
        /\ old.authors = <<>> /\ IsNone(inp.env.CARGO_PKG_AUTHORS) => new.authors = none
        /\ IsNone(old.projectUrl) /\ IsNone(inp.env.CARGO_PKG_HOMEPAGE) =>
              IsNone(new.projectUrl)

\* the stages of a run against the variables that are unset
MissingEnvironment(none) ==
    /\ gpc = "generate" /\ NoArtifactsEnv => gpc' = "err"
    /\ gpc = "generate_to" /\ (IsNone(inp.env.CARGO_MANIFEST_PATH) \/ NoArtifactsEnv) =>
          /\ gpc' = "err"
          /\ loaded'.err = "MissingEnvironment"
    /\ gpc = "identity" =>
          IF IsNone(inp.env.CARGO_PKG_NAME)
          THEN gpc' = "err" /\ loaded'.err = "MissingEnvironment"
          ELSE gpc' = "license" /\ UnsetLeavesEmpty(none)
    /\ gpc = "license" /\ IsNone(loaded.pkg.metadata.license)
          /\ IsNone(inp.env.CARGO_PKG_LICENSE) /\ IsNone(inp.env.CARGO_PKG_LICENSE_FILE) =>
          gpc' = "tags" /\ IsNone(loaded'.pkg.metadata.license)
    /\ gpc = "repository" /\ IsNone(loaded.pkg.metadata.repository)
          /\ IsNone(inp.env.CARGO_PKG_REPOSITORY) =>
          gpc' = "readme" /\ IsNone(loaded'.pkg.metadata.repository)
    /\ gpc = "readme" /\ IsNone(loaded.pkg.metadata.readme)
          /\ IsNone(inp.env.CARGO_PKG_README) =>
          gpc' = "binaries" /\ IsNone(loaded'.pkg.metadata.readme)

\* C21: resolution ends with the missing-environment error when
\* CARGO_MANIFEST_PATH, OUT_DIR, PROFILE or CARGO_PKG_NAME is unset, the last
\* even with a declared id; an unset version, description, authors, homepage,
\* license, license-file, repository or readme variable is no error and
\* leaves its field empty or absent.
C21_MissingEnvironment == [][MissingEnvironment(<<>>)]_vars


----------------------------------------------------------------------------
(* generate_to, lines 27-31, by two runs on one output path.  Each run has  *)
(* its own open file, made by File::create, which empties the file and puts  *)
(* the position at 0; write_all writes at the position and moves it.  What   *)
(* a run has serialized is a short byte string.                              *)

MaxBodyLen == 2

Writers == {"A", "B"}

Other(w) == CHOOSE o \in Writers : o # w

\* a byte of the file no one wrote
Nul == "nul"

\* line 29: the bytes of the prolog
PrologBytes ==
    <<"<", "?", "x", "m", "l", " ", "v", "e", "r", "s", "i", "o", "n", "=",
    "\"", "1", ".", "0", "\"", " ", "e", "n", "c", "o", "d", "i", "n", "g",
    "=", "\"", "u", "t", "f", "-", "8", "\"", "?", ">">>

\* what a run has serialized
Bodies == Strs({"p", "q"}, MaxBodyLen) \ {<<>>}

\* a mutant: the file keeps its bytes when it is opened
CreateKeeping(bytes) == bytes

\* line 28: File::create truncates the file
CreateTruncating(bytes) == <<>>

\* write_all of `data` at position `at` of a file holding `bytes`
WriteAt(bytes, at, data) ==
    LET end == at + Len(data)
        size == IF end > Len(bytes) THEN end ELSE Len(bytes)
    IN  [i \in 1..size |->
            IF i > at /\ i <= end THEN data[i - at]
            ELSE IF i <= Len(bytes) THEN bytes[i]
            ELSE Nul]

RaceInit ==
    /\ CodecIdle
    /\ ListIdle
    /\ PathIdle
    /\ GenIdle
    /\ wpc = [w \in Writers |-> "create"]
    /\ output \in [Writers -> Bodies]
    /\ cursor = [w \in Writers |-> 0]
    /\ shared = <<>>
    /\ log = <<>>

\* line 28
RaceCreate(w) ==
    /\ wpc[w] = "create"
    /\ wpc' = [wpc EXCEPT ![w] = "prolog"]
    /\ shared' = CreateTruncating(shared)
    /\ cursor' = [cursor EXCEPT ![w] = 0]
    /\ log' = Append(log, <<w, "create">>)
    /\ UNCHANGED <<output, codecVars, listVars, pathVars, genVars>>

\* one write_all of a run
RaceWrite(w, at, then, data) ==
    /\ wpc[w] = at
    /\ wpc' = [wpc EXCEPT ![w] = then]
    /\ shared' = WriteAt(shared, cursor[w], data)
    /\ cursor' = [cursor EXCEPT ![w] = @ + Len(data)]
    /\ log' = Append(log, <<w, at>>)
    /\ UNCHANGED <<output, codecVars, listVars, pathVars, genVars>>

\* line 29
RaceProlog(w) == RaceWrite(w, "prolog", "newline", PrologBytes)

\* line 30
RaceNewline(w) == RaceWrite(w, "newline", "body", <<"\n">>)

\* line 31
RaceBody(w) == RaceWrite(w, "body", "ok", output[w])

RaceNext ==
    \E w \in Writers :
       \/ RaceCreate(w)
       \/ RaceProlog(w)
       \/ RaceNewline(w)
       \/ RaceBody(w)

RaceSpec == RaceInit /\ [][RaceNext]_vars

\* both runs have returned
RaceDone == wpc # <<>> /\ \A w \in Writers : wpc[w] = "ok"

\* the complete output of a run
Out(w) == PrologBytes \o <<"\n">> \o output[w]

\* when a run did a step
When(w, step) == CHOOSE i \in 1..Len(log) : log[i] = <<w, step>>

\* the run that wrote last
LastWriter == log[Len(log)][1]

\* the other run's output is the longer one and was written after the last
\* writer had opened the file
LeavesTail ==
    /\ Len(output[Other(LastWriter)]) > Len(output[LastWriter])
    /\ When(Other(LastWriter), "body") > When(LastWriter, "create")

\* C22 (as amended): after both runs have finished the file begins with the
\* complete output of the run that wrote last; it is exactly that output
\* unless the other run wrote a longer output after the last writer had
\* opened the file, and then the excess bytes of the other output follow.
C22_LastWriterPrefix ==
    RaceDone =>
       shared = IF LeavesTail
                THEN Out(LastWriter)
                       \o SubSeq(Out(Other(LastWriter)), Len(Out(LastWriter)) + 1,
                                 Len(Out(Other(LastWriter))))
                ELSE Out(LastWriter)

\* C22 (as stated): after both runs have finished the file holds exactly the
\* complete output of the run that wrote last.
C22_LastWriterWins == RaceDone => shared = Out(LastWriter)

\* the runs interleave, B opening the file after A wrote its prolog and
\* writing last: the file is B's output
C22_Witness ==
    /\ RaceDone
    /\ output["A"] = <<"p">>
    /\ output["B"] = <<"q", "q">>
    /\ LastWriter = "B"
    /\ When("B", "create") > When("A", "prolog")
    /\ When("A", "body") > When("B", "newline")
    /\ shared = Out("B")


----------------------------------------------------------------------------
(* spec.rs: KnownPackageType and its codec know_package_type.  A value is    *)
(* [kind, name], the name being that of a Custom and empty otherwise.         *)

MaxNameLen == 3

KnownKinds == {"Dependency", "DotnetTool", "MSBuildSdk", "Template"}

\* the four names as written in the name attribute
KnownName(kind) ==
    CASE kind = "Dependency" -> <<"D", "e", "p", "e", "n", "d", "e", "n", "c", "y">>
      [] kind = "DotnetTool" -> <<"D", "o", "t", "n", "e", "t", "T", "o", "o", "l">>
      [] kind = "MSBuildSdk" -> <<"M", "S", "B", "u", "i", "l", "d", "S", "d", "k">>
      [] kind = "Template" -> <<"T", "e", "m", "p", "l", "a", "t", "e">>

Known(kind) == [kind |-> kind, name |-> <<>>]

Custom(name) == [kind |-> "Custom", name |-> name]

\* Display for KnownPackageType
TypeToString(t) == IF t.kind = "Custom" THEN t.name ELSE KnownName(t.kind)

\* know_package_type::serialize
KnownPackageTypeSerialize(t) == TypeToString(t)

\* a mutant: every name is read as a Custom
KnownPackageTypeDeserializeCustom(s) == Custom(s)

\* know_package_type::deserialize
KnownPackageTypeDeserialize(s) ==
    IF \E kind \in KnownKinds : KnownName(kind) = s
    THEN Known(CHOOSE kind \in KnownKinds : KnownName(kind) = s)
    ELSE Custom(s)

\* the values: the four known types, and Custom of short strings, of the
\* known names and of names one character away from them
PackageTypeValues ==
    {Known(kind) : kind \in KnownKinds}
      \cup {Custom(s) : s \in Strs({"a", "D", "e"}, MaxNameLen)}
      \cup {Custom(KnownName(kind)) : kind \in KnownKinds}
      \cup {Custom(KnownName(kind) \o <<"s">>) : kind \in KnownKinds}
      \cup {Custom(Tail(KnownName(kind))) : kind \in KnownKinds}

TypeInit ==
    /\ ListIdle
    /\ PathIdle
    /\ GenIdle
    /\ RaceIdle
    /\ cpc = "type"
    /\ cval \in PackageTypeValues
    /\ cdoc = <<>>
    /\ cres = <<>>

\* the name attribute is written
TypeSerialize ==
    /\ cpc = "type"
    /\ cdoc' = KnownPackageTypeSerialize(cval)
    /\ cpc' = "type written"
    /\ UNCHANGED <<cval, cres, listVars, pathVars, genVars, raceVars>>

\* the name attribute is read
TypeDeserialize ==
    /\ cpc = "type written"
    /\ cres' = KnownPackageTypeDeserialize(cdoc)
    /\ cpc' = "type read"
    /\ UNCHANGED <<cval, cdoc, listVars, pathVars, genVars, raceVars>>

TypeNext == TypeSerialize \/ TypeDeserialize

TypeSpec == TypeInit /\ [][TypeNext]_vars

\* a Custom whose string is one of the four known names
CustomOfKnownName ==
    cval.kind = "Custom" /\ \E kind \in KnownKinds : KnownName(kind) = cval.name

\* C23 (as amended): Dependency, DotnetTool, MSBuildSdk, Template and
\* Custom(s) for every string s that is not one of those four names are read
\* back from their serialized name as themselves.
C23_TypeRoundTrip ==
    cpc = "type read" /\ ~CustomOfKnownName => cres = cval

\* C23 (as stated): every KnownPackageType value, Custom(s) for any string s
\* included, is read back from its serialized name as itself.
C23_AnyTypeRoundTrip == cpc = "type read" => cres = cval

\* Custom("Dependencys") is read back as itself
C23_Witness ==
    /\ cpc = "type read"
    /\ cval = Custom(<<"D", "e", "p", "e", "n", "d", "e", "n", "c", "y", "s">>)
    /\ cres = cval


\* the environment names a readme that is a file on the disk
EnvReadmeFile ==
    /\ IsSome(inp.env.CARGO_PKG_README)
    /\ Unwrap(inp.env.CARGO_PKG_README) # <<>>
    /\ Canon(disk, inp.cwd, Unwrap(inp.env.CARGO_PKG_README)).ok
    /\ Canon(disk, inp.cwd, Unwrap(inp.env.CARGO_PKG_README)).path \in disk.files

\* C25: with no readme declared and a non-empty readme path in the
\* environment that names an existing file, the readme stage leaves the
\* file's basename as readme and appends the entry {src: the path from
\* out_dir, target: the basename} unless the src of an entry of the list ends
\* with the basename; with an empty value it leaves readme absent and the
\* list as it was.
C25_ReadmeDerivation ==
    [][gpc = "readme" /\ IsNone(loaded.pkg.metadata.readme) =>
          /\ EnvReadmeFile =>
                LET name == Unwrap(FileName(Unwrap(inp.env.CARGO_PKG_README)))
                    src == GetRelativePath(disk, inp.cwd, loaded.out_dir,
                                           Unwrap(inp.env.CARGO_PKG_README)).path
                IN  /\ gpc' = "binaries"
                    /\ loaded'.pkg.metadata.readme = Some(name)
                    /\ loaded'.files =
                          IF \E i \in 1..Len(loaded.files) : EndsWith(loaded.files[i].src, name)
                          THEN loaded.files
                          ELSE Append(loaded.files, Entry(src, Some(name)))
          /\ inp.env.CARGO_PKG_README = Some(<<>>) =>
                /\ gpc' = "binaries"
                /\ IsNone(loaded'.pkg.metadata.readme)
                /\ loaded'.files = loaded.files]_vars

\* the readme /w/p/R with out_dir /w/c: readme R, entry {src ../p/R, target R}
C25_Witness ==
    /\ gpc = "binaries"
    /\ inp.env.CARGO_PKG_README = Some(ReadmePath)
    /\ loaded.out_dir = CustomDir
    /\ loaded.pkg.metadata.readme = Some(<<"R">>)
    /\ loaded.files = <<Entry(<<".", ".", "/", "p", "/", "R">>, Some(<<"R">>))>>


\* the entries the manifest declares
DeclaredEntryList == IF IsNone(DeclaredFileList) THEN <<>> ELSE Unwrap(DeclaredFileList)

RelativeSrc(entry) == entry.src = <<>> \/ Head(entry.src) # "/"

BeforeCreate ==
    gpc \in {"generate", "generate_to", "out_dir", "declared", "identity", "license",
             "tags", "repository", "readme", "binaries", "library", "finish"}

\* C28: no step of a run before File::create, and no step that ends the run
\* with an error, makes, empties or writes a file: when resolution fails the
\* output file of an earlier run is there as it was.
C28_FailureLeavesOutput ==
    [][BeforeCreate \/ gpc' = "err" =>
          /\ disk'.files = disk.files
          /\ disk'.content = disk.content]_vars

\* resolution has failed on a missing readme; the earlier output is as it was
C28_Witness ==
    /\ gpc = "err"
    /\ loaded # <<>>
    /\ loaded.err = "PathError"
    /\ P(PreviousOutput) \in disk.files
    /\ disk.content = (P(PreviousOutput) :> <<"old">>)


\* the file name of the path a variable of the environment holds, if any
EnvFileName(value) ==
    IF IsSome(value) /\ Unwrap(value) # <<>> THEN FileName(Unwrap(value)) ELSE None

Least(set) == CHOOSE n \in set : \A m \in set : n <= m

\* where an appended entry belongs: 1 the license file, 2 the readme,
\* 3 the binaries, 4 the library, and within those the place of its binary
\* or crate type in the manifest; 0 when it belongs nowhere
Place(entry) ==
    LET name == FileName(entry.src)
        ofBinary == {i \in 1..Len(DeclaredBinaries) :
                        \E x \in ExecutableFiles(DeclaredBinaries[i].name,
                                                 Underscored(DeclaredBinaries[i].name)) :
                           name = Some(x[2])}
        ofKind == {i \in 1..Len(LibraryKinds) :
                      \E x \in KindFiles(LibraryName, LibraryKinds[i]) : name = Some(x[2])}
    IN  IF name = EnvFileName(inp.env.CARGO_PKG_LICENSE_FILE) THEN <<1, 0>>
        ELSE IF name = EnvFileName(inp.env.CARGO_PKG_README) THEN <<2, 0>>
        ELSE IF ofBinary # {} THEN <<3, Least(ofBinary)>>
        ELSE IF IsSome(PackageManifest.lib) /\ ofKind # {} THEN <<4, Least(ofKind)>>
        ELSE <<0, 0>>

NotAfter(a, b) == a[1] < b[1] \/ (a[1] = b[1] /\ a[2] <= b[2])

\* C29: the resolved list begins with the declared entries, all of them and
\* in their order; the appended entries follow in the order license file,
\* readme, binaries as declared, crate types as declared; and the files field
\* of the package is absent exactly when the list is empty.
C29_EntryOrder ==
    Returned =>
       LET n == Len(DeclaredEntryList)
           list == loaded.files
       IN  /\ Len(list) >= n
           /\ \A i \in 1..n :
                 /\ list[i].target = DeclaredEntryList[i].target
                 /\ list[i].exclude = DeclaredEntryList[i].exclude
                 /\ list[i].src =
                       IF RelativeSrc(DeclaredEntryList[i])
                       THEN GetRelativePath(disk, inp.cwd, loaded.out_dir,
                                            DeclaredEntryList[i].src).path
                       ELSE DeclaredEntryList[i].src
           /\ \A i \in (n + 1)..Len(list) : Place(list[i])[1] > 0
           /\ \A i, j \in (n + 1)..Len(list) :
                 i < j => NotAfter(Place(list[i]), Place(list[j]))
           /\ loaded.pkg.files = IF list = <<>> THEN None ELSE Some(list)

\* a declared entry, then the license file, the readme, the binary and the
\* library, in this order
C29_Witness ==
    /\ Returned
    /\ Len(DeclaredEntryList) = 1
    /\ Len(loaded.files) = 5
    /\ [i \in 1..5 |-> FileName(loaded.files[i].src)]
          = <<Some(<<"k">>), Some(<<"L">>), Some(<<"R">>), Some(<<"x", "-", "y">>), Some(<<"l", "i", "b", "n", "_", "m", ".", "s", "o">>)>>


\* the tags need no workspace manifest: they are declared, or the package
\* lists its keywords, or its delegation marker is `workspace = false`
NoLookupNeeded ==
    \/ IsSome(DeclaredMetadata.tags)
    \/ /\ IsSome(PackageKeywords)
       /\ \/ Unwrap(PackageKeywords).kind = "keywords"
          \/ ~Unwrap(PackageKeywords).workspace

\* C30: with declared tags, a direct keyword list or the marker
\* `workspace = false`, the tags stage reads neither CARGO_MANIFEST_DIR nor a
\* workspace manifest and goes on to the next stage, whether or not the
\* variable is set and a manifest lies above the package.
C30_LookupOnlyWhenNeeded ==
    [][gpc = "tags" /\ NoLookupNeeded =>
          /\ gpc' = "repository"
          /\ ~loaded'.workspace_read]_vars

\* the marker is `workspace = false`, CARGO_MANIFEST_DIR is unset, no
\* manifest lies above the package, and the tags stage has gone through
C30_Witness ==
    /\ gpc = "repository"
    /\ IsNone(inp.env.CARGO_MANIFEST_DIR)
    /\ ManifestsAbove = <<>>
    /\ IsNone(DeclaredMetadata.tags)
    /\ PackageKeywords = Some(Delegated(FALSE))
    /\ ~loaded.workspace_read

====
